---- MODULE Spec2Model ----
(***************************************************************************)
(* ts-media-bridge, package ts_media_bridge.                               *)
(*                                                                         *)
(* media_bridge.py: the article-to-album matching engine                   *)
(* (match_articles_to_albums), the time-windowed search-index builder      *)
(* (build_album_article_index_windowed) with its window computation, the   *)
(* text normaliser (_normalize), count_mentions_per_album,                 *)
(* match_articles_to_albums_strict and album_mention_summary.              *)
(* spotify_helpers.py: the column checks of the four analysis helpers.     *)
(* nyt_client.py: NYTClient.search_articles over NYTClient._get, with the  *)
(* rate limit of the client.                                               *)
(* spotify_client.py: SpotifyClient._ensure_token and the canonical-album  *)
(* filter and base titles of SpotifyClient.get_artist_albums_df.           *)
(*                                                                         *)
(* Text is a sequence of one-character strings, so that lower-casing,      *)
(* punctuation removal, substring search and word boundaries are computed  *)
(* character by character, the way the Python code computes them.  The     *)
(* components share one tuple of variables; each specification holds the   *)
(* variables of the other components at their idle values.                 *)
(***************************************************************************)
EXTENDS Integers, Sequences, FiniteSets, TLC

VARIABLES
    albums,      \* `albums`: the copy of df_albums, then with the added columns
    articles,    \* `articles`: the copy of df_articles, then with the added columns
    ai,          \* position of the outer loop (album row, 1-based)
    ri,          \* position of the inner loop (article row, 1-based)
    matches,     \* the list `matches` of emitted records
    decisions,   \* history: <<album row, article row>> -> <<in_headline, in_snippet>>
    mpc,         \* where match_articles_to_albums is:
                 \* "start", "album", "article", "done"
    b_albums,    \* df_albums handed to build_album_article_index_windowed
    pages_per_album,
    years_after,
    bi,          \* position of the builder's loop (album row, 1-based)
    all_rows,    \* the list `all_rows` of tagged frames
    calls,       \* history: the search_album calls issued, in order
    outcomes,    \* history: what happened to each album row processed so far
    index,       \* the frame the builder returned
    bpc,         \* where the builder is: "idle", "loop", "done", "raised"
    fn,          \* the function a single call is made to, or "idle"
    args,        \* the arguments of that call, by parameter name
    ret,         \* its outcome: pending, a returned value or a raised error
    libc_pads_year,  \* the platform: whether strftime("%Y") pads the year
                     \* to four digits (glibc does not)
    page,        \* NYTClient.search_articles: the loop variable `p`
    attempt,     \* NYTClient._get: the loop variable `attempt`
    all_docs,    \* NYTClient.search_articles: the list `all_docs`
    now,         \* time.time(): in half seconds for NYTClient, in seconds
                 \* for SpotifyClient
    last_request_time,   \* NYTClient._last_request_time, in half seconds
    requests,    \* history: the HTTP requests sent, with what came back
    access_token,        \* SpotifyClient._access_token
    token_expires_at     \* SpotifyClient._token_expires_at, in seconds

mvars == <<albums, articles, ai, ri, matches, decisions, mpc>>

bvars == <<b_albums, pages_per_album, years_after, bi, all_rows, calls, outcomes,
           index, bpc>>

\* the frame of a single call of one of the other functions
cvars == <<fn, args, ret>>

\* NYTClient during search_articles; its arguments and outcome are in the
\* frame of the call
nvars == <<page, attempt, all_docs, now, last_request_time, requests>>

\* SpotifyClient's cached token; the clock and the request history are those
\* of nvars
svars == <<access_token, token_expires_at>>

\* what the matcher, the builder, a single call, the NYT client and the
\* Spotify client leave alone
notm == <<bvars, cvars, nvars, svars, libc_pads_year>>
notb == <<mvars, cvars, nvars, svars, libc_pads_year>>
notc == <<mvars, bvars, nvars, svars, libc_pads_year>>
notn == <<mvars, bvars, svars, libc_pads_year>>
nots == <<mvars, bvars, page, attempt, all_docs, last_request_time, libc_pads_year>>

vars == <<mvars, bvars, cvars, nvars, svars, libc_pads_year>>

\* ------------------------------------------------------------------------
\* Characters
\* ------------------------------------------------------------------------
LowerLetters ==
    <<"a","b","c","d","e","f","g","h","i","j","k","l","m","n","o","p","q","r","s","t","u","v","w","x","y","z">>
UpperLetters ==
    <<"A","B","C","D","E","F","G","H","I","J","K","L","M","N","O","P","Q","R","S","T","U","V","W","X","Y","Z">>
DigitChars ==
    <<"0","1","2","3","4","5","6","7","8","9">>

Range(s) == {s[i] : i \in 1..Len(s)}

\* None, as opposed to any text
NoneValue == <<"<None>">>

\* str(None): what Series.astype(str) makes of a None cell
StrNone ==
    <<"N","o","n","e">>

UpperSet == Range(UpperLetters)

LowerOfUpper ==
    [c \in UpperSet |->
        LowerLetters[CHOOSE i \in 1..Len(UpperLetters) : UpperLetters[i] = c]]

\* str.lower() on the ASCII letters
ToLower(c) == IF c \in UpperSet THEN LowerOfUpper[c] ELSE c

AlnumSet == Range(LowerLetters) \cup Range(DigitChars)

SpaceSet == {" ", "\t", "\n"}

WordCharSet == AlnumSet \cup UpperSet \cup {"_"}

\* the class [a-z0-9]
IsAlnum(c) == c \in AlnumSet

\* the class \s
IsSpace(c) == c \in SpaceSet

\* the class \w
IsWordChar(c) == c \in WordCharSet

\* ------------------------------------------------------------------------
\* Text operations
\* ------------------------------------------------------------------------
Lower(text) == [i \in 1..Len(text) |-> ToLower(text[i])]

\* re.sub(r"[^a-z0-9\s]", " ", text)
SubPunct(text) ==
    [i \in 1..Len(text) |->
        IF IsAlnum(text[i]) \/ IsSpace(text[i]) THEN text[i] ELSE " "]

RECURSIVE CollapseFrom(_, _)
CollapseFrom(text, i) ==
    IF i > Len(text) THEN << >>
    ELSE IF IsSpace(text[i])
         THEN (IF i > 1 /\ IsSpace(text[i - 1]) THEN << >> ELSE <<" ">>)
              \o CollapseFrom(text, i + 1)
         ELSE <<text[i]>> \o CollapseFrom(text, i + 1)

\* re.sub(r"\s+", " ", text)
CollapseSpaces(text) == CollapseFrom(text, 1)

RECURSIVE LStrip(_)
LStrip(text) ==
    IF text # << >> /\ IsSpace(Head(text)) THEN LStrip(Tail(text)) ELSE text

RECURSIVE RStrip(_)
RStrip(text) ==
    IF text # << >> /\ IsSpace(text[Len(text)])
    THEN RStrip(SubSeq(text, 1, Len(text) - 1))
    ELSE text

\* str.strip()
Strip(text) == RStrip(LStrip(text))

\* variant: strip() is applied before the punctuation is replaced
Normalize_StripFirst(text) ==
    IF text = NoneValue THEN << >>
    ELSE CollapseSpaces(SubPunct(Strip(Lower(text))))

\* _normalize(text)
Normalize(text) ==
    IF text = NoneValue THEN << >>
    ELSE Strip(CollapseSpaces(SubPunct(Lower(text))))

\* Series.astype(str) on one cell
AsStr(cell) == IF cell = NoneValue THEN StrNone ELSE cell

\* `needle in text` on two str
Contains(text, needle) ==
    \E i \in 1..(Len(text) - Len(needle) + 1) :
        SubSeq(text, i, i + Len(needle) - 1) = needle

\* \b between text[p] and text[p + 1] (p = 0: the start, p = Len: the end)
BoundaryAt(text, p) ==
    LET before == p >= 1 /\ IsWordChar(text[p])
        after == p < Len(text) /\ IsWordChar(text[p + 1])
    IN  before # after

\* re.search(r"\b" + re.escape(needle) + r"\b", text) is not None
WordSearch(text, needle) ==
    \E i \in 1..(Len(text) - Len(needle) + 1) :
        /\ SubSeq(text, i, i + Len(needle) - 1) = needle
        /\ BoundaryAt(text, i - 1)
        /\ BoundaryAt(text, i + Len(needle) - 1)

\* ------------------------------------------------------------------------
\* Module tables of media_bridge.py
\* ------------------------------------------------------------------------
\* the members of GENERIC_TITLES
Generic ==
    [red |->
       <<"r","e","d">>,
     lover |->
       <<"l","o","v","e","r">>,
     reputation |->
       <<"r","e","p","u","t","a","t","i","o","n">>,
     midnights |->
       <<"m","i","d","n","i","g","h","t","s">>,
     folklore |->
       <<"f","o","l","k","l","o","r","e">>,
     evermore |->
       <<"e","v","e","r","m","o","r","e">>,
     taylor_swift |->
       <<"t","a","y","l","o","r"," ","s","w","i","f","t">>]

GENERIC_TITLES == {Generic[k] : k \in DOMAIN Generic}

\* the members of MUSIC_CONTEXT_KEYWORDS
Keyword ==
    [album |->
       <<"a","l","b","u","m">>,
     record |->
       <<"r","e","c","o","r","d">>,
     song |->
       <<"s","o","n","g">>,
     track |->
       <<"t","r","a","c","k">>,
     lp |->
       <<"l","p">>,
     ep |->
       <<"e","p">>]

MUSIC_CONTEXT_KEYWORDS == {Keyword[k] : k \in DOMAIN Keyword}

\* the phrases of has_album_context
AlbumPhrase ==
    [debut_album |->
       <<"d","e","b","u","t"," ","a","l","b","u","m">>,
     self_titled |->
       <<"s","e","l","f"," ","t","i","t","l","e","d">>,
     selftitled |->
       <<"s","e","l","f","t","i","t","l","e","d">>]

\* ------------------------------------------------------------------------
\* match_articles_to_albums: the per-album and per-pair computations
\* ------------------------------------------------------------------------
\* row.get(col): None when the table has no such column
Get(row, col) == IF col \in DOMAIN row THEN row[col] ELSE NoneValue

\* albums["base_title"].fillna(albums["name"]), or albums["name"]
title_key(alb) ==
    IF "base_title" \in DOMAIN alb
    THEN (IF alb.base_title = NoneValue THEN alb.name ELSE alb.base_title)
    ELSE alb.name

\* a row with one more column
WithColumn(row, col, value) ==
    [c \in DOMAIN row \cup {col} |-> IF c = col THEN value ELSE row[c]]

\* the columns title_key_norm and name_norm added to an album row
AlbumWithNorms(alb) ==
    WithColumn(WithColumn(alb, "title_key_norm", Normalize(AsStr(title_key(alb)))),
               "name_norm", Normalize(AsStr(alb.name)))

\* the columns headline_norm and snippet_norm added to an article row
ArticleWithNorms(art) ==
    WithColumn(WithColumn(art, "headline_norm", Normalize(AsStr(art.headline))),
               "snippet_norm", Normalize(AsStr(art.snippet)))

\* `if not full_norm and not base_norm: continue`
SkipsAlbum(alb) == alb.name_norm = << >> /\ alb.title_key_norm = << >>

is_generic(base_norm) == base_norm \in GENERIC_TITLES

has_music_context(text_norm) ==
    \E kw \in MUSIC_CONTEXT_KEYWORDS : Contains(text_norm, kw)

has_album_context(text_norm) ==
    \/ Contains(text_norm, AlbumPhrase.debut_album)
    \/ Contains(text_norm, AlbumPhrase.self_titled)
    \/ Contains(text_norm, AlbumPhrase.selftitled)

\* variant: the music context is looked for in the article as a whole
GenericHits_SharedContext(base_norm, h, s) ==
    IF base_norm # << >>
    THEN <<WordSearch(h, base_norm) /\ has_music_context(h \o <<" ">> \o s),
           WordSearch(s, base_norm) /\ has_music_context(h \o <<" ">> \o s)>>
    ELSE <<FALSE, FALSE>>

\* the generic branch before the self-titled special case:
\* <<in_headline, in_snippet>>
GenericHits(base_norm, h, s) ==
    IF base_norm # << >>
    THEN <<WordSearch(h, base_norm) /\ has_music_context(h),
           WordSearch(s, base_norm) /\ has_music_context(s)>>
    ELSE <<FALSE, FALSE>>

\* variant: the debut/self-titled phrase is looked for in the article as a whole
SelfTitledGate_AnyField(base_norm, hits, h, s) ==
    IF base_norm = Generic.taylor_swift
    THEN <<hits[1] /\ has_album_context(h \o <<" ">> \o s),
           hits[2] /\ has_album_context(h \o <<" ">> \o s)>>
    ELSE hits

\* the special case of the self-titled album
SelfTitledGate(base_norm, hits, h, s) ==
    IF base_norm = Generic.taylor_swift
    THEN <<hits[1] /\ has_album_context(h), hits[2] /\ has_album_context(s)>>
    ELSE hits

\* variant: the substring test without the `if base_norm` guard
DistinctiveHits_Unguarded(base_norm, h, s) ==
    <<Contains(h, base_norm), Contains(s, base_norm)>>

\* variant: distinctive titles matched on word boundaries
DistinctiveHits_WordBounded(base_norm, h, s) ==
    <<base_norm # << >> /\ WordSearch(h, base_norm),
      base_norm # << >> /\ WordSearch(s, base_norm)>>

\* the distinctive branch
DistinctiveHits(base_norm, h, s) ==
    <<base_norm # << >> /\ Contains(h, base_norm),
      base_norm # << >> /\ Contains(s, base_norm)>>

\* <<in_headline, in_snippet>> of one (album, article) pair
Decide(base_norm, h, s) ==
    IF is_generic(base_norm)
    THEN SelfTitledGate(base_norm, GenericHits(base_norm, h, s), h, s)
    ELSE DistinctiveHits(base_norm, h, s)

\* variant: the headline test comes first
MatchIn_HeadlineFirst(in_headline, in_snippet) ==
    IF in_headline THEN "headline"
    ELSE IF in_headline /\ in_snippet THEN "both"
    ELSE "snippet"

\* the tag of a pair that matched in at least one field
MatchIn(in_headline, in_snippet) ==
    IF in_headline /\ in_snippet THEN "both"
    ELSE IF in_headline THEN "headline"
    ELSE "snippet"

\* the record appended to `matches`; album_row and article_row are history
MatchRecord(alb, art, i, j, d) ==
    [album_id |-> Get(alb, "id"),
     album_name |-> Get(alb, "name"),
     album_base_title |-> Get(alb, "base_title"),
     headline |-> Get(art, "headline"),
     snippet |-> Get(art, "snippet"),
     web_url |-> Get(art, "web_url"),
     match_in |-> MatchIn(d[1], d[2]),
     album_row |-> i,
     article_row |-> j]

PairDecision == Decide(albums[ai].title_key_norm,
                       articles[ri].headline_norm,
                       articles[ri].snippet_norm)

\* ------------------------------------------------------------------------
\* match_articles_to_albums: the loops
\* ------------------------------------------------------------------------
\* the normalized columns are computed for every row before the loops
Prepare ==
    /\ mpc = "start"
    /\ albums' = [i \in 1..Len(albums) |-> AlbumWithNorms(albums[i])]
    /\ articles' = [j \in 1..Len(articles) |-> ArticleWithNorms(articles[j])]
    /\ mpc' = "album"
    /\ UNCHANGED <<ai, ri, matches, decisions, notm>>

\* `continue` of an album whose name and title key both normalize to ""
SkipAlbum ==
    /\ mpc = "album"
    /\ ai <= Len(albums)
    /\ SkipsAlbum(albums[ai])
    /\ ai' = ai + 1
    /\ UNCHANGED <<albums, articles, ri, matches, decisions, mpc, notm>>

EnterAlbum ==
    /\ mpc = "album"
    /\ ai <= Len(albums)
    /\ ~SkipsAlbum(albums[ai])
    /\ mpc' = "article"
    /\ ri' = 1
    /\ UNCHANGED <<albums, articles, ai, matches, decisions, notm>>

\* a pair that matches in neither field: `continue`
DropPair ==
    /\ mpc = "article"
    /\ ri <= Len(articles)
    /\ ~(PairDecision[1] \/ PairDecision[2])
    /\ decisions' = decisions @@ (<<ai, ri>> :> PairDecision)
    /\ ri' = ri + 1
    /\ UNCHANGED <<albums, articles, ai, matches, mpc, notm>>

\* variant: one record per matching field
EmitPair_PerField ==
    /\ mpc = "article"
    /\ ri <= Len(articles)
    /\ PairDecision[1] \/ PairDecision[2]
    /\ matches' =
          LET rec == MatchRecord(albums[ai], articles[ri], ai, ri, PairDecision)
          IN  IF PairDecision[1] /\ PairDecision[2]
              THEN matches \o <<rec, rec>>
              ELSE Append(matches, rec)
    /\ decisions' = decisions @@ (<<ai, ri>> :> PairDecision)
    /\ ri' = ri + 1
    /\ UNCHANGED <<albums, articles, ai, mpc, notm>>

\* variant: the record is put in front of the list
EmitPair_Prepend ==
    /\ mpc = "article"
    /\ ri <= Len(articles)
    /\ PairDecision[1] \/ PairDecision[2]
    /\ matches' =
          <<MatchRecord(albums[ai], articles[ri], ai, ri, PairDecision)>> \o matches
    /\ decisions' = decisions @@ (<<ai, ri>> :> PairDecision)
    /\ ri' = ri + 1
    /\ UNCHANGED <<albums, articles, ai, mpc, notm>>

\* a pair that matches in a field: matches.append(...)
EmitPair ==
    /\ mpc = "article"
    /\ ri <= Len(articles)
    /\ PairDecision[1] \/ PairDecision[2]
    /\ matches' = Append(matches,
                         MatchRecord(albums[ai], articles[ri], ai, ri, PairDecision))
    /\ decisions' = decisions @@ (<<ai, ri>> :> PairDecision)
    /\ ri' = ri + 1
    /\ UNCHANGED <<albums, articles, ai, mpc, notm>>

\* the inner loop is exhausted
LeaveAlbum ==
    /\ mpc = "article"
    /\ ri > Len(articles)
    /\ ai' = ai + 1
    /\ mpc' = "album"
    /\ UNCHANGED <<albums, articles, ri, matches, decisions, notm>>

\* the outer loop is exhausted: return pd.DataFrame(matches)
ReturnMatches ==
    /\ mpc = "album"
    /\ ai > Len(albums)
    /\ mpc' = "done"
    /\ UNCHANGED <<albums, articles, ai, ri, matches, decisions, notm>>

\* ------------------------------------------------------------------------
\* Inputs of the matcher
\* ------------------------------------------------------------------------
\* album names and base titles
Title ==
    [RedTV |->
       <<"R","e","d"," ","(","T","a","y","l","o","r","'","s"," ","V","e","r","s","i","o","n",")">>,
     Red |->
       <<"R","e","d">>,
     Lover |->
       <<"L","o","v","e","r">>,
     reputation |->
       <<"r","e","p","u","t","a","t","i","o","n">>,
     Midnights |->
       <<"M","i","d","n","i","g","h","t","s">>,
     folkloreDeluxe |->
       <<"f","o","l","k","l","o","r","e"," ","(","d","e","l","u","x","e"," ","v","e","r","s","i","o","n",")">>,
     folklore |->
       <<"f","o","l","k","l","o","r","e">>,
     evermore |->
       <<"e","v","e","r","m","o","r","e">>,
     TaylorSwift |->
       <<"T","a","y","l","o","r"," ","S","w","i","f","t">>,
     Y1989TV |->
       <<"1","9","8","9"," ","(","T","a","y","l","o","r","'","s"," ","V","e","r","s","i","o","n",")">>,
     Y1989 |->
       <<"1","9","8","9">>,
     Fearless |->
       <<"F","e","a","r","l","e","s","s">>,
     Punct |->
       <<"?">>,
     One |->
       <<"O","n","e">>,
     SpeakNow |->
       <<"S","p","e","a","k"," ","N","o","w">>,
     TTPD |->
       <<"T","H","E"," ","T","O","R","T","U","R","E","D"," ","P","O","E","T","S"," ","D","E","P","A","R","T","M","E","N","T">>,
     Showgirl |->
       <<"T","h","e"," ","L","i","f","e"," ","o","f"," ","a"," ","S","h","o","w","g","i","r","l">>,
     FearlessTV |->
       <<"F","e","a","r","l","e","s","s"," ","(","T","a","y","l","o","r","'","s"," ","V","e","r","s","i","o","n",")">>,
     SpeakNowTV |->
       <<"S","p","e","a","k"," ","N","o","w"," ","(","T","a","y","l","o","r","'","s"," ","V","e","r","s","i","o","n",")">>,
     evermoreDeluxe |->
       <<"e","v","e","r","m","o","r","e"," ","(","d","e","l","u","x","e"," ","v","e","r","s","i","o","n",")">>,
     TTPDTitleCase |->
       <<"T","h","e"," ","T","o","r","t","u","r","e","d"," ","P","o","e","t","s"," ","D","e","p","a","r","t","m","e","n","t">>,
     Unlisted |->
       <<"U","n","l","i","s","t","e","d">>]

\* headline and snippet texts
Txt ==
    [Empty |->
       << >>,
     RedTurns10 |->
       <<"T","a","y","l","o","r"," ","S","w","i","f","t","'","s"," ","'","R","e","d","'"," ","a","l","b","u","m"," ","t","u","r","n","s"," ","1","0">>,
     RedCarpet |->
       <<"R","e","d"," ","c","a","r","p","e","t">>,
     HundredAlbums |->
       <<"H","u","n","d","r","e","d"," ","a","l","b","u","m","s">>,
     LoversSong |->
       <<"L","o","v","e","r","s","'"," ","s","o","n","g">>,
     LoverSong |->
       <<"L","o","v","e","r"," ","s","o","n","g">>,
     NewTrack |->
       <<"n","e","w"," ","t","r","a","c","k">>,
     TSAlbum |->
       <<"T","a","y","l","o","r"," ","S","w","i","f","t"," ","a","l","b","u","m">>,
     TSDebutAlbum |->
       <<"T","a","y","l","o","r"," ","S","w","i","f","t"," ","d","e","b","u","t"," ","a","l","b","u","m">>,
     TSSelfTitled |->
       <<"T","a","y","l","o","r"," ","S","w","i","f","t",":"," ","s","e","l","f","-","t","i","t","l","e","d">>,
     SelfTitledRecord |->
       <<"S","e","l","f","-","t","i","t","l","e","d"," ","r","e","c","o","r","d"," ","b","y"," ","T","a","y","l","o","r"," ","S","w","i","f","t">>,
     HerDebutAlbum |->
       <<"h","e","r"," ","d","e","b","u","t"," ","a","l","b","u","m">>,
     In1989 |->
       <<"I","n"," ","1","9","8","9">>,
     Digits |->
       <<"1","1","9","8","9","2">>,
     Fearlessly |->
       <<"F","e","a","r","l","e","s","s","l","y">>,
     MidnightsLP |->
       <<"M","i","d","n","i","g","h","t","s"," ","L","P">>,
     FolkEverEP |->
       <<"f","o","l","k","l","o","r","e"," ","\t","&"," ","e","v","e","r","m","o","r","e"," ","E","P","!">>,
     KeepEvermore |->
       <<"K","e","e","p"," ","e","v","e","r","m","o","r","e">>,
     DocOne |->
       <<"R","e","d"," ","a","t"," ","t","e","n">>,
     DocTwo |->
       <<"A"," ","n","e","w"," ","e","r","a">>]

MaxAlbums == 2
MaxArticles == 2

Album(name, base) == [id |-> name, name |-> name, base_title |-> base]

\* album rows of a catalog table with a base_title column
AlbumPool ==
    {Album(Title.RedTV, Title.Red), Album(Title.Lover, Title.Lover),
     Album(Title.reputation, Title.reputation), Album(Title.Midnights, Title.Midnights),
     Album(Title.folkloreDeluxe, Title.folklore), Album(Title.evermore, Title.evermore),
     Album(Title.TaylorSwift, Title.TaylorSwift), Album(Title.Y1989TV, Title.Y1989),
     Album(Title.Fearless, Title.Fearless), Album(Title.Midnights, NoneValue),
     Album(Title.Punct, Title.Punct), Album(Title.Red, Title.Punct),
     Album(Title.One, Title.One)}

\* album rows of a table without a base_title column
BareAlbumPool == {[id |-> n, name |-> n] : n \in {Title.Lover, Title.Y1989, Title.Punct}}

TextPool ==
    {Txt.Empty, Title.Red, Title.Lover, Title.reputation, Title.Midnights, Title.folklore, Title.evermore,
     Title.TaylorSwift, Txt.RedTurns10, Txt.RedCarpet, Txt.HundredAlbums, Txt.LoversSong,
     Txt.LoverSong, Txt.NewTrack, Txt.TSAlbum, Txt.TSDebutAlbum, Txt.TSSelfTitled,
     Txt.SelfTitledRecord, Txt.HerDebutAlbum, Txt.In1989, Txt.Digits, Txt.Fearlessly,
     Txt.MidnightsLP, Txt.FolkEverEP, Txt.KeepEvermore, NoneValue}

Url1 == <<"u", "1">>
Url2 == <<"u", "2">>

Article(h, s, u) == [headline |-> h, snippet |-> s, web_url |-> u]

ArticlePool == {Article(h, s, Url1) : h \in TextPool, s \in TextPool}

\* the rows the multi-row tables are drawn from
SmallAlbumPool ==
    {Album(Title.RedTV, Title.Red), Album(Title.Y1989TV, Title.Y1989),
     Album(Title.TaylorSwift, Title.TaylorSwift), Album(Title.Punct, Title.Punct)}

SmallArticlePool ==
    {Article(Txt.RedTurns10, Txt.RedTurns10, Url1), Article(Txt.RedCarpet, Txt.In1989, Url2),
     Article(Txt.TSDebutAlbum, Txt.RedTurns10, Url1), Article(Txt.NewTrack, NoneValue, Url2)}

SeqsUpTo(S, n) == UNION {[1..k -> S] : k \in 0..n}

MatchStart ==
    /\ ai = 1
    /\ ri = 1
    /\ matches = << >>
    /\ decisions = << >>
    /\ mpc = "start"

\* the builder is not running
BuildIdle ==
    /\ b_albums = << >>
    /\ pages_per_album = 1
    /\ years_after = 2
    /\ bi = 1
    /\ all_rows = << >>
    /\ calls = << >>
    /\ outcomes = << >>
    /\ index = << >>
    /\ bpc = "idle"

\* no single call is being made
CallIdle ==
    /\ fn = "idle"
    /\ args = << >>
    /\ ret = [kind |-> "idle"]

\* the NYT client is not in use
NytIdle ==
    /\ page = 0
    /\ attempt = 0
    /\ all_docs = << >>
    /\ now = 0
    /\ last_request_time = 0
    /\ requests = << >>

\* SpotifyClient.__init__: no token yet
SpotifyIdle ==
    /\ access_token = NoneValue
    /\ token_expires_at = 0

\* one album row against one article row, over the whole pools
InitPair ==
    /\ albums \in {<<a>> : a \in AlbumPool \cup BareAlbumPool}
    /\ articles \in {<<r>> : r \in ArticlePool}
    /\ MatchStart
    /\ BuildIdle
    /\ CallIdle
    /\ NytIdle
    /\ SpotifyIdle
    /\ libc_pads_year = FALSE

\* tables of several rows
InitTables ==
    /\ albums \in SeqsUpTo(SmallAlbumPool, MaxAlbums)
    /\ articles \in SeqsUpTo(SmallArticlePool, MaxArticles)
    /\ MatchStart
    /\ BuildIdle
    /\ CallIdle
    /\ NytIdle
    /\ SpotifyIdle
    /\ libc_pads_year = FALSE

InitMatch == InitPair \/ InitTables

NextMatch ==
    \/ Prepare
    \/ SkipAlbum
    \/ EnterAlbum
    \/ DropPair
    \/ EmitPair
    \/ LeaveAlbum
    \/ ReturnMatches

SpecMatch == InitMatch /\ [][NextMatch]_vars

\* ------------------------------------------------------------------------
\* The release-date table
\* ------------------------------------------------------------------------
\* the values of TS_ALBUM_RELEASE_DATES
ReleaseDate ==
    [TaylorSwift |->
       <<"2","0","0","6","-","1","0","-","2","4">>,
     Fearless |->
       <<"2","0","0","8","-","1","1","-","1","1">>,
     SpeakNow |->
       <<"2","0","1","0","-","1","0","-","2","5">>,
     Red |->
       <<"2","0","1","2","-","1","0","-","2","2">>,
     Y1989 |->
       <<"2","0","1","4","-","1","0","-","2","7">>,
     reputation |->
       <<"2","0","1","7","-","1","1","-","1","0">>,
     Lover |->
       <<"2","0","1","9","-","0","8","-","2","3">>,
     folklore |->
       <<"2","0","2","0","-","0","7","-","2","4">>,
     evermore |->
       <<"2","0","2","0","-","1","2","-","1","1">>,
     Midnights |->
       <<"2","0","2","2","-","1","0","-","2","1">>,
     TTPD |->
       <<"2","0","2","4","-","0","4","-","1","9">>,
     Showgirl |->
       <<"2","0","2","5","-","1","0","-","0","3">>,
     FearlessTV |->
       <<"2","0","2","1","-","0","4","-","0","9">>,
     RedTV |->
       <<"2","0","2","1","-","1","1","-","1","2">>,
     SpeakNowTV |->
       <<"2","0","2","3","-","0","7","-","0","7">>,
     Y1989TV |->
       <<"2","0","2","3","-","1","0","-","2","7">>,
     folkloreDeluxe |->
       <<"2","0","2","0","-","0","8","-","1","8">>,
     evermoreDeluxe |->
       <<"2","0","2","1","-","0","1","-","0","7">>]

\* TS_ALBUM_RELEASE_DATES, as <<key, value>> pairs
TS_ALBUM_RELEASE_DATES ==
    {<<Title[k], ReleaseDate[k]>> : k \in DOMAIN ReleaseDate}

\* TS_ALBUM_RELEASE_DATES.get(title)
ReleaseDateOf(title) ==
    IF \E e \in TS_ALBUM_RELEASE_DATES : e[1] = title
    THEN (CHOOSE e \in TS_ALBUM_RELEASE_DATES : e[1] = title)[2]
    ELSE NoneValue

\* ------------------------------------------------------------------------
\* album_to_search_window
\* ------------------------------------------------------------------------
DigitSet == Range(DigitChars)

DigitVal(c) == CHOOSE v \in 0..9 : DigitChars[v + 1] = c

RECURSIVE NumVal(_)
NumVal(ds) ==
    IF ds = << >> THEN 0
    ELSE 10 * NumVal(SubSeq(ds, 1, Len(ds) - 1)) + DigitVal(ds[Len(ds)])

\* datetime.MINYEAR and datetime.MAXYEAR
MINYEAR == 1
MAXYEAR == 9999

\* the directive %m: 1[0-2]|0[1-9]|[1-9]
IsMonthField(f) ==
    \/ Len(f) = 2 /\ f[1] = "1" /\ f[2] \in {"0", "1", "2"}
    \/ Len(f) = 2 /\ f[1] = "0" /\ f[2] \in DigitSet \ {"0"}
    \/ Len(f) = 1 /\ f[1] \in DigitSet \ {"0"}

\* the directive %d: 3[0-1]|[1-2]\d|0[1-9]|[1-9]| [1-9]
IsDayField(f) ==
    \/ Len(f) = 2 /\ f[1] = "3" /\ f[2] \in {"0", "1"}
    \/ Len(f) = 2 /\ f[1] \in {"1", "2"} /\ f[2] \in DigitSet
    \/ Len(f) = 2 /\ f[1] \in {"0", " "} /\ f[2] \in DigitSet \ {"0"}
    \/ Len(f) = 1 /\ f[1] \in DigitSet \ {"0"}

IsLeap(y) == (y % 4 = 0 /\ y % 100 # 0) \/ y % 400 = 0

DaysIn(y, m) ==
    IF m = 2 THEN (IF IsLeap(y) THEN 29 ELSE 28)
    ELSE IF m \in {4, 6, 9, 11} THEN 30
    ELSE 31

\* the fields of a date string, split at the second "-"
DateFields(s, k) ==
    [Y |-> SubSeq(s, 1, 4), m |-> SubSeq(s, 6, k - 1), d |-> SubSeq(s, k + 1, Len(s))]

DateSplits(s) ==
    {k \in 7..Len(s) :
        /\ \A i \in 1..4 : s[i] \in DigitSet
        /\ s[5] = "-"
        /\ s[k] = "-"
        /\ IsMonthField(DateFields(s, k).m)
        /\ IsDayField(DateFields(s, k).d)}

\* datetime.datetime.strptime(release_date, "%Y-%m-%d"): ok = FALSE is ValueError
strptime(s) ==
    IF Len(s) < 8 \/ DateSplits(s) = {}
    THEN [ok |-> FALSE, year |-> 0, month |-> 0, day |-> 0]
    ELSE LET f == DateFields(s, CHOOSE k \in DateSplits(s) : TRUE)
             y == NumVal(f.Y)
             m == NumVal(f.m)
             d == NumVal(SelectSeq(f.d, LAMBDA c : c # " "))
         IN  [ok |-> y >= MINYEAR /\ d <= DaysIn(y, m),
              year |-> y, month |-> m, day |-> d]

RECURSIVE Digits(_, _)
\* the decimal digits of n, zero-padded to at least `width`
Digits(n, width) ==
    IF n < 10 /\ width <= 1 THEN <<DigitChars[n + 1]>>
    ELSE Digits(n \div 10, width - 1) \o <<DigitChars[(n % 10) + 1]>>

\* strftime("%Y%m%d"): %Y is the C library's, which pads the year to four
\* digits on some platforms and not on others
strftime(y, m, d) ==
    Digits(y, IF libc_pads_year THEN 4 ELSE 1) \o Digits(m, 2) \o Digits(d, 2)

\* album_to_search_window(release_date, years_after): ok = FALSE is the
\* ValueError of strptime or of replace(year=...)
album_to_search_window(release_date, ya) ==
    LET dt == strptime(release_date)
        end_year == dt.year + ya
    IN  IF dt.ok /\ end_year >= MINYEAR /\ end_year <= MAXYEAR
        THEN [ok |-> TRUE,
              begin_date |-> strftime(dt.year, 1, 1),
              end_date |-> strftime(end_year, 1, 1)]
        ELSE [ok |-> FALSE, begin_date |-> << >>, end_date |-> << >>]

\* ------------------------------------------------------------------------
\* NYTClient.docs_to_df
\* ------------------------------------------------------------------------
\* d.get("headline", {}).get("main") raises when "headline" is null
DocsToDfRaises(docs) == \E i \in 1..Len(docs) : docs[i].headline.kind = "null"

HeadlineMain(doc) ==
    IF doc.headline.kind = "dict" THEN doc.headline.main ELSE NoneValue

\* the rows of the frame; the columns pub_date, section, source, news_desk
\* and type_of_material are copied like snippet and web_url
docs_to_df(docs) ==
    [i \in 1..Len(docs) |->
        [headline |-> HeadlineMain(docs[i]),
         snippet |-> docs[i].snippet,
         web_url |-> docs[i].web_url]]

\* df_docs["album_base_title"] = title; album_row is history
Tagged(frame, title, row) ==
    [i \in 1..Len(frame) |->
        [headline |-> frame[i].headline,
         snippet |-> frame[i].snippet,
         web_url |-> frame[i].web_url,
         album_base_title |-> title,
         album_row |-> row]]

RECURSIVE Concat_Reversed(_)
\* variant: the frames are concatenated last to first
Concat_Reversed(frames) ==
    IF frames = << >> THEN << >> ELSE Concat_Reversed(Tail(frames)) \o Head(frames)

RECURSIVE Concat(_)
\* pd.concat(frames, ignore_index=True)
Concat(frames) ==
    IF frames = << >> THEN << >> ELSE Head(frames) \o Concat(Tail(frames))

\* ------------------------------------------------------------------------
\* Inputs of the builder
\* ------------------------------------------------------------------------
MaxBuildAlbums == 3

\* base_title cells: listed titles, an unlisted one, and None
BuildTitlePool == {Title.TaylorSwift, Title.Red, Title.Unlisted, NoneValue}

PagesSet == {1, 3}

\* the last value takes the end year of every album after 2009 past MAXYEAR
YearsAfterSet == {2, 7990}

Doc(h, s, u) == [headline |-> h, snippet |-> s, web_url |-> u]

DocOne == Doc([kind |-> "dict", main |-> Txt.DocOne], Txt.RedTurns10, Url1)

DocTwo == Doc([kind |-> "dict", main |-> Txt.DocTwo], NoneValue, Url2)

\* a document whose "headline" is null
DocNullHeadline == Doc([kind |-> "null"], Txt.NewTrack, Url2)

\* what search_album may return
DocListPool ==
    {<< >>, <<DocOne>>, <<DocOne, DocTwo>>, <<DocTwo, DocOne>>,
     <<DocNullHeadline>>, <<DocOne, DocNullHeadline>>}

\* ------------------------------------------------------------------------
\* build_album_article_index_windowed: one action per way an iteration ends
\* ------------------------------------------------------------------------
BuildTitle == b_albums[bi].base_title

BuildWindow == album_to_search_window(ReleaseDateOf(BuildTitle), years_after)

InLoop == bpc = "loop" /\ bi <= Len(b_albums)

\* `if not release_date`: None or ""
HasReleaseDate ==
    ReleaseDateOf(BuildTitle) # NoneValue /\ ReleaseDateOf(BuildTitle) # << >>

SearchCall ==
    [album_name |-> BuildTitle,
     pages |-> pages_per_album,
     begin_date |-> BuildWindow.begin_date,
     end_date |-> BuildWindow.end_date,
     album_row |-> bi]

Outcome(kind, docs) == [kind |-> kind, docs |-> docs]

\* variant: the search is issued although the release date is unknown
BuildSkipUnknown_Searches ==
    /\ InLoop
    /\ ~HasReleaseDate
    /\ calls' = Append(calls, SearchCall)
    /\ outcomes' = Append(outcomes, Outcome("unknown", << >>))
    /\ bi' = bi + 1
    /\ UNCHANGED <<b_albums, pages_per_album, years_after, all_rows, index, bpc,
                   notb>>

\* unknown release date: `continue`
BuildSkipUnknown ==
    /\ InLoop
    /\ ~HasReleaseDate
    /\ outcomes' = Append(outcomes, Outcome("unknown", << >>))
    /\ bi' = bi + 1
    /\ UNCHANGED <<b_albums, pages_per_album, years_after, all_rows, calls, index,
                   bpc, notb>>

\* album_to_search_window raises: the call is outside the try block
BuildWindowRaises ==
    /\ InLoop
    /\ HasReleaseDate
    /\ ~BuildWindow.ok
    /\ outcomes' = Append(outcomes, Outcome("window_error", << >>))
    /\ bpc' = "raised"
    /\ UNCHANGED <<b_albums, pages_per_album, years_after, bi, all_rows, calls,
                   index, notb>>

\* variant: the exception of search_album is not caught
BuildSearchRaises_Propagates ==
    /\ InLoop
    /\ HasReleaseDate
    /\ BuildWindow.ok
    /\ calls' = Append(calls, SearchCall)
    /\ outcomes' = Append(outcomes, Outcome("search_error", << >>))
    /\ bpc' = "raised"
    /\ UNCHANGED <<b_albums, pages_per_album, years_after, bi, all_rows, index,
                   notb>>

\* search_album raises: `except Exception` and `continue`
BuildSearchRaises ==
    /\ InLoop
    /\ HasReleaseDate
    /\ BuildWindow.ok
    /\ calls' = Append(calls, SearchCall)
    /\ outcomes' = Append(outcomes, Outcome("search_error", << >>))
    /\ bi' = bi + 1
    /\ UNCHANGED <<b_albums, pages_per_album, years_after, all_rows, index, bpc,
                   notb>>

\* search_album returns no documents: `if not docs: continue`
BuildNoDocs ==
    /\ InLoop
    /\ HasReleaseDate
    /\ BuildWindow.ok
    /\ calls' = Append(calls, SearchCall)
    /\ outcomes' = Append(outcomes, Outcome("no_docs", << >>))
    /\ bi' = bi + 1
    /\ UNCHANGED <<b_albums, pages_per_album, years_after, all_rows, index, bpc,
                   notb>>

\* docs_to_df raises: the call is outside the try block
BuildConvertRaises ==
    /\ InLoop
    /\ HasReleaseDate
    /\ BuildWindow.ok
    /\ \E docs \in DocListPool :
           /\ docs # << >>
           /\ DocsToDfRaises(docs)
           /\ calls' = Append(calls, SearchCall)
           /\ outcomes' = Append(outcomes, Outcome("convert_error", docs))
    /\ bpc' = "raised"
    /\ UNCHANGED <<b_albums, pages_per_album, years_after, bi, all_rows, index,
                   notb>>

\* the documents are converted, tagged and appended to all_rows
BuildAppend ==
    /\ InLoop
    /\ HasReleaseDate
    /\ BuildWindow.ok
    /\ \E docs \in DocListPool :
           /\ docs # << >>
           /\ ~DocsToDfRaises(docs)
           /\ calls' = Append(calls, SearchCall)
           /\ outcomes' = Append(outcomes, Outcome("added", docs))
           /\ all_rows' = Append(all_rows, Tagged(docs_to_df(docs), BuildTitle, bi))
    /\ bi' = bi + 1
    /\ UNCHANGED <<b_albums, pages_per_album, years_after, index, bpc, notb>>

\* the loop is exhausted: return pd.concat(all_rows, ignore_index=True),
\* or an empty frame
BuildReturn ==
    /\ bpc = "loop"
    /\ bi > Len(b_albums)
    /\ index' = Concat(all_rows)
    /\ bpc' = "done"
    /\ UNCHANGED <<b_albums, pages_per_album, years_after, bi, all_rows, calls,
                   outcomes, notb>>

\* the matcher is not running
MatchIdle ==
    /\ albums = << >>
    /\ articles = << >>
    /\ ai = 1
    /\ ri = 1
    /\ matches = << >>
    /\ decisions = << >>
    /\ mpc = "idle"

InitBuild ==
    /\ b_albums \in SeqsUpTo({[base_title |-> t] : t \in BuildTitlePool}, MaxBuildAlbums)
    /\ pages_per_album \in PagesSet
    /\ years_after \in YearsAfterSet
    /\ bi = 1
    /\ all_rows = << >>
    /\ calls = << >>
    /\ outcomes = << >>
    /\ index = << >>
    /\ bpc = "loop"
    /\ MatchIdle
    /\ CallIdle
    /\ NytIdle
    /\ SpotifyIdle
    /\ libc_pads_year \in BOOLEAN

NextBuild ==
    \/ BuildSkipUnknown
    \/ BuildWindowRaises
    \/ BuildSearchRaises
    \/ BuildNoDocs
    \/ BuildConvertRaises
    \/ BuildAppend
    \/ BuildReturn

SpecBuild == InitBuild /\ [][NextBuild]_vars

\* ------------------------------------------------------------------------
\* A single call of album_to_search_window
\* ------------------------------------------------------------------------
\* release_date arguments: dates of the table and texts at the edges of
\* what strptime accepts
DateText ==
    [Example |->
       <<"2","0","2","0","-","0","7","-","2","4">>,
     LeapDay |->
       <<"2","0","2","0","-","0","2","-","2","9">>,
     NoLeapDay |->
       <<"2","0","1","9","-","0","2","-","2","9">>,
     Year999 |->
       <<"0","9","9","9","-","0","6","-","0","1">>,
     Year1 |->
       <<"0","0","0","1","-","0","1","-","0","1">>,
     Year9999 |->
       <<"9","9","9","9","-","1","2","-","3","1">>,
     Year0 |->
       <<"0","0","0","0","-","0","1","-","0","1">>,
     Unpadded |->
       <<"2","0","2","0","-","7","-","4">>,
     Month13 |->
       <<"2","0","2","0","-","1","3","-","0","1">>,
     Day0 |->
       <<"2","0","2","0","-","0","7","-","0","0">>,
     April31 |->
       <<"2","0","2","0","-","0","4","-","3","1">>,
     NoDashes |->
       <<"2","0","2","0","0","7","2","4">>,
     Empty |->
       << >>,
     Trailing |->
       <<"2","0","2","0","-","0","7","-","2","4"," ">>,
     Slashes |->
       <<"0","7","/","2","4","/","2","0","2","0">>,
     NoDay |->
       <<"2","0","2","0","-","0","7">>,
     Word |->
       <<"T","B","A">>]

Pending == [kind |-> "pending"]

Returned(value) == [kind |-> "returned", value |-> value]

Raised(error) == [kind |-> "raised", error |-> error]

\* the window is returned as the pair (begin_date, end_date)
WindowReturns ==
    /\ fn = "album_to_search_window"
    /\ ret = Pending
    /\ LET w == album_to_search_window(args.release_date, args.years_after)
       IN  /\ w.ok
           /\ ret' = Returned(<<w.begin_date, w.end_date>>)
    /\ UNCHANGED <<fn, args, notc>>

\* strptime or replace(year=...) raises ValueError; strptime(None) raises
\* TypeError
WindowRaises ==
    /\ fn = "album_to_search_window"
    /\ ret = Pending
    /\ ~album_to_search_window(args.release_date, args.years_after).ok
    /\ ret' = Raised(IF args.release_date = NoneValue
                     THEN "TypeError" ELSE "ValueError")
    /\ UNCHANGED <<fn, args, notc>>

\* release_date: the dates of the table, the edge texts and None;
\* years_after: 7980 takes the year 2020 to 10000
InitWindow ==
    /\ fn = "album_to_search_window"
    /\ args \in [release_date : {ReleaseDate[k] : k \in DOMAIN ReleaseDate}
                                   \cup {DateText[k] : k \in DOMAIN DateText}
                                   \cup {NoneValue},
                  years_after : {0, 1, 2, 10, 7979, 7980}]
    /\ ret = Pending
    /\ libc_pads_year \in BOOLEAN
    /\ MatchIdle
    /\ BuildIdle
    /\ NytIdle
    /\ SpotifyIdle

SpecWindow == InitWindow /\ [][WindowReturns \/ WindowRaises]_vars

\* ------------------------------------------------------------------------
\* A single call of _normalize
\* ------------------------------------------------------------------------
MaxTextLen == 4

\* _normalize has no raising path for a str or None
NormalizeReturns ==
    /\ fn = "_normalize"
    /\ ret = Pending
    /\ ret' = Returned(Normalize(args.text))
    /\ UNCHANGED <<fn, args, notc>>

\* the caller hands the result to _normalize once more
NormalizeAgain ==
    /\ fn = "_normalize"
    /\ ret.kind = "returned"
    /\ args.round = 1
    /\ args' = [text |-> ret.value, round |-> 2, first |-> ret.value,
                original |-> args.original]
    /\ ret' = Pending
    /\ UNCHANGED <<fn, notc>>

\* text: every text up to MaxTextLen over one character of each kind the two
\* patterns tell apart (lower-case and upper-case letter, digit, two kinds of
\* white space, punctuation, the word character outside [a-z0-9]), the
\* headline and snippet texts, and None. round, first and original are
\* history: which call this is, what the first call returned, and the text
\* it was given
InitNormalize ==
    /\ fn = "_normalize"
    /\ args \in {[text |-> t, round |-> 1, first |-> NoneValue, original |-> t] :
                    t \in SeqsUpTo({"b", "A", "1", " ", "\t", "-", "_"}, MaxTextLen)
                              \cup TextPool}
    /\ ret = Pending
    /\ libc_pads_year = FALSE
    /\ MatchIdle
    /\ BuildIdle
    /\ NytIdle
    /\ SpotifyIdle

SpecNormalize == InitNormalize /\ [][NormalizeReturns \/ NormalizeAgain]_vars

\* ------------------------------------------------------------------------
\* A single call of count_mentions_per_album
\* ------------------------------------------------------------------------
\* the printable ASCII characters in code-point order, but for the double
\* quote, the backslash and the backquote
Ascii ==
    <<" ","!","#","$","%","&","'","(",")","*","+",",","-",".","/",
      "0","1","2","3","4","5","6","7","8","9",":",";","<","=",">","?",
      "@","A","B","C","D","E","F","G","H","I","J","K","L","M","N","O",
      "P","Q","R","S","T","U","V","W","X","Y","Z","[","]","^","_",
      "a","b","c","d","e","f","g","h","i","j","k","l","m","n","o",
      "p","q","r","s","t","u","v","w","x","y","z","{","|","}","~">>

RECURSIVE StrLess(_, _)
\* a < b on two str, as groupby compares its keys when it sorts them
StrLess(a, b) ==
    IF a = << >> THEN b # << >>
    ELSE IF b = << >> THEN FALSE
    ELSE IF a[1] = b[1] THEN StrLess(Tail(a), Tail(b))
    ELSE (CHOOSE i \in 1..Len(Ascii) : Ascii[i] = a[1])
             < (CHOOSE i \in 1..Len(Ascii) : Ascii[i] = b[1])

\* the rows of one group; groupby leaves out the rows whose key is None
GroupRows(df, key) ==
    SelectSeq(df.rows, LAMBDA r : r.album_base_title = key)

\* the group keys in the order groupby yields them: sorted
GroupKeys(df) ==
    LET keys == {df.rows[i].album_base_title : i \in 1..Len(df.rows)} \ {NoneValue}
    IN  CHOOSE s \in [1..Cardinality(keys) -> keys] :
            /\ \A i \in DOMAIN s : \A j \in DOMAIN s : i < j => StrLess(s[i], s[j])
            /\ {s[i] : i \in DOMAIN s} = keys

\* variant: the rows of the group are counted whatever unique_by_url is
MentionCount_Rows(df, key, unique_by_url) == Len(GroupRows(df, key))

\* ["web_url"].nunique() leaves None out; size() counts the rows
MentionCount(df, key, unique_by_url) ==
    IF unique_by_url /\ "web_url" \in df.columns
    THEN Cardinality({GroupRows(df, key)[i].web_url :
                          i \in 1..Len(GroupRows(df, key))} \ {NoneValue})
    ELSE Len(GroupRows(df, key))

\* `grouped`: one row per key, in key order
Grouped(df, unique_by_url) ==
    [g \in 1..Len(GroupKeys(df)) |->
        [album_base_title |-> GroupKeys(df)[g],
         mention_count |-> MentionCount(df, GroupKeys(df)[g], unique_by_url),
         group |-> g]]

\* sort_values("mention_count", ascending=False) with the default
\* kind="quicksort", which is not a stable sort: any descending arrangement
\* of the rows can come out
SortValuesOutcomes(frame) ==
    {s \in [1..Len(frame) -> Range(frame)] :
        /\ Range(s) = Range(frame)
        /\ \A i \in 1..(Len(s) - 1) : s[i].mention_count >= s[i + 1].mention_count}

MaxMatchRows == 4

MatchRow(title, url) == [album_base_title |-> title, web_url |-> url]

\* df_album_articles is None
NoFrame == [none |-> TRUE]

\* `df_album_articles is None or df_album_articles.empty`
FrameIsEmpty(df) == IF df = NoFrame THEN TRUE ELSE df.rows = << >>

\* the empty frame with the two columns
CountReturnsEmpty ==
    /\ fn = "count_mentions_per_album"
    /\ ret = Pending
    /\ FrameIsEmpty(args.df_album_articles)
    /\ ret' = Returned(<< >>)
    /\ UNCHANGED <<fn, args, notc>>

\* the sorted summary; `group`, the place of the row in `grouped`, is history
CountReturns ==
    /\ fn = "count_mentions_per_album"
    /\ ret = Pending
    /\ ~FrameIsEmpty(args.df_album_articles)
    /\ \E sorted \in SortValuesOutcomes(Grouped(args.df_album_articles,
                                                args.unique_by_url)) :
           ret' = Returned(sorted)
    /\ UNCHANGED <<fn, args, notc>>

\* df_album_articles: None, frames with both columns (three albums, one of
\* them with a row without a URL, and a row without a base title), and
\* frames without the web_url column
InitCount ==
    /\ fn = "count_mentions_per_album"
    /\ args \in
           [df_album_articles :
                {NoFrame}
                    \cup {[columns |-> {"album_base_title", "web_url"}, rows |-> s] :
                              s \in SeqsUpTo({MatchRow(Title.Red, Url1),
                                              MatchRow(Title.Red, Url2),
                                              MatchRow(Title.Red, NoneValue),
                                              MatchRow(Title.Lover, Url1),
                                              MatchRow(Title.Lover, Url2),
                                              MatchRow(Title.Fearless, Url1),
                                              MatchRow(NoneValue, Url1)},
                                             MaxMatchRows)}
                    \cup {[columns |-> {"album_base_title"}, rows |-> s] :
                              s \in SeqsUpTo({[album_base_title |-> t] :
                                                  t \in {Title.Red, Title.Lover,
                                                         NoneValue}},
                                             MaxMatchRows)},
            unique_by_url : BOOLEAN]
    /\ ret = Pending
    /\ libc_pads_year = FALSE
    /\ MatchIdle
    /\ BuildIdle
    /\ NytIdle
    /\ SpotifyIdle

SpecCount == InitCount /\ [][CountReturnsEmpty \/ CountReturns]_vars

\* ------------------------------------------------------------------------
\* A single call of match_articles_to_albums_strict
\* ------------------------------------------------------------------------
RECURSIVE Unique(_)
\* Series.unique(): the values in order of first appearance
Unique(s) ==
    IF s = << >> THEN << >>
    ELSE LET front == Unique(SubSeq(s, 1, Len(s) - 1))
         IN  IF s[Len(s)] \in Range(front) THEN front
             ELSE Append(front, s[Len(s)])

\* df_albums["base_title"].dropna().unique().tolist()
BaseTitles(df_albums) ==
    Unique(SelectSeq([i \in 1..Len(df_albums) |-> df_albums[i].base_title],
                     LAMBDA t : t # NoneValue))

\* variant: the self-titled album is left out by its exact spelling
StrictTitles_CaseSensitive(df_albums, skip_ambiguous) ==
    IF skip_ambiguous
    THEN SelectSeq(BaseTitles(df_albums), LAMBDA t : t # Title.TaylorSwift)
    ELSE BaseTitles(df_albums)

\* `titles`: with skip_ambiguous, without those whose lower() is
\* "taylor swift"
StrictTitles(df_albums, skip_ambiguous) ==
    IF skip_ambiguous
    THEN SelectSeq(BaseTitles(df_albums),
                   LAMBDA t : Lower(t) # Generic.taylor_swift)
    ELSE BaseTitles(df_albums)

\* f"{headline} {snippet}".lower(); a None cell is formatted as "None"
StrictText(art) ==
    Lower(AsStr(art.headline) \o <<" ">> \o AsStr(art.snippet))

\* the rows one article adds: one per title whose pattern
\* \b + escape(title.lower()) + \b is found in the text, in title order;
\* pub_date is copied like web_url, article_row is history
StrictArticleRows(titles, art, j) ==
    LET found == SelectSeq(titles, LAMBDA t : WordSearch(StrictText(art), Lower(t)))
    IN  [k \in 1..Len(found) |->
            [album_base_title |-> found[k],
             headline |-> art.headline,
             snippet |-> art.snippet,
             web_url |-> art.web_url,
             article_row |-> j]]

RECURSIVE StrictRows(_, _, _)
\* `rows` after the first j articles
StrictRows(titles, df_articles, j) ==
    IF j = 0 THEN << >>
    ELSE StrictRows(titles, df_articles, j - 1)
         \o StrictArticleRows(titles, df_articles[j], j)

\* return pd.DataFrame(rows)
StrictReturns ==
    /\ fn = "match_articles_to_albums_strict"
    /\ ret = Pending
    /\ ret' = Returned(StrictRows(StrictTitles(args.df_albums, args.skip_ambiguous),
                                  args.df_articles, Len(args.df_articles)))
    /\ UNCHANGED <<fn, args, notc>>

\* df_albums: base titles in two spellings of the self-titled album,
\* two other titles and None
InitStrict ==
    /\ fn = "match_articles_to_albums_strict"
    /\ args \in
           [df_articles : SeqsUpTo(SmallArticlePool, MaxArticles),
            df_albums : SeqsUpTo({[base_title |-> t] :
                                     t \in {Title.TaylorSwift, Generic.taylor_swift,
                                            Title.Red, Title.Y1989, NoneValue}},
                                 MaxAlbums),
            skip_ambiguous : BOOLEAN]
    /\ ret = Pending
    /\ libc_pads_year = FALSE
    /\ MatchIdle
    /\ BuildIdle
    /\ NytIdle
    /\ SpotifyIdle

SpecStrict == InitStrict /\ [][StrictReturns]_vars

\* ------------------------------------------------------------------------
\* A single call of a helper of spotify_helpers.py
\* ------------------------------------------------------------------------
\* the column each helper tests for before it reads the table
HelperChecked ==
    [get_tracks_by_year |-> "album_release_date",
     longest_songs |-> "duration_ms",
     popularity_over_time |-> "album_popularity",
     compare_rerecordings |-> "album_base_title"]

\* the columns each helper reads after the test, in the order it reads them
HelperReads ==
    [get_tracks_by_year |-> <<"album_release_date">>,
     longest_songs |-> <<"duration_ms">>,
     popularity_over_time |-> <<"album_release_date", "album_popularity">>,
     compare_rerecordings |->
         <<"album_base_title", "album_is_rerecording", "album_popularity">>]

\* the columns read that df_tracks does not have, in reading order
MissingReads == SelectSeq(HelperReads[fn], LAMBDA c : c \notin args.df_tracks.columns)

\* `raise ValueError("df_tracks must contain ... column.")`
HelperRaisesValueError ==
    /\ fn \in DOMAIN HelperChecked
    /\ ret = Pending
    /\ HelperChecked[fn] \notin args.df_tracks.columns
    /\ ret' = Raised([type |-> "ValueError", column |-> HelperChecked[fn]])
    /\ UNCHANGED <<fn, args, notc>>

\* the test passed and pandas raises KeyError at the first column read that
\* the table does not have
HelperRaisesKeyError ==
    /\ fn \in DOMAIN HelperChecked
    /\ ret = Pending
    /\ HelperChecked[fn] \in args.df_tracks.columns
    /\ MissingReads # << >>
    /\ ret' = Raised([type |-> "KeyError", column |-> Head(MissingReads)])
    /\ UNCHANGED <<fn, args, notc>>

\* every column read is there: the helper returns its table
HelperReturns ==
    /\ fn \in DOMAIN HelperChecked
    /\ ret = Pending
    /\ HelperChecked[fn] \in args.df_tracks.columns
    /\ MissingReads = << >>
    /\ ret' = Returned(fn)
    /\ UNCHANGED <<fn, args, notc>>

\* df_tracks: a table of well-formed rows with any of the five columns
InitHelper ==
    /\ fn \in DOMAIN HelperChecked
    /\ args \in [df_tracks :
                    [columns : SUBSET {"album_release_date", "duration_ms",
                                       "album_popularity", "album_base_title",
                                       "album_is_rerecording"}]]
    /\ ret = Pending
    /\ libc_pads_year = FALSE
    /\ MatchIdle
    /\ BuildIdle
    /\ NytIdle
    /\ SpotifyIdle

SpecHelper ==
    InitHelper /\ [][HelperRaisesValueError \/ HelperRaisesKeyError \/ HelperReturns]_vars

\* ------------------------------------------------------------------------
\* NYTClient.search_articles and NYTClient._get
\* ------------------------------------------------------------------------
\* self._min_request_interval = 6.5, in half seconds
min_request_interval == 13

\* the default of _get's max_retries, which search_articles does not pass
max_retries == 3

MaxPages == 2

\* how long a request takes, in half seconds: no time, or 7 s
Took == {0, 14}

\* variant: _rate_limit_wait does not sleep
SentAt_NoWait == now

\* _rate_limit_wait: the time after the sleep, which becomes
\* _last_request_time and at which the request is sent
SentAt ==
    IF now - last_request_time < min_request_interval
    THEN last_request_time + min_request_interval
    ELSE now

\* one pass of _get's loop for page `page`: _rate_limit_wait, requests.get,
\* and the sleep after a 429
NytRequest(status, docs, took, slept) ==
    /\ fn = "search_articles"
    /\ ret = Pending
    /\ page < args.pages
    /\ attempt < max_retries
    /\ last_request_time' = SentAt
    /\ now' = SentAt + took + slept
    /\ requests' = Append(requests,
                          [page |-> page, attempt |-> attempt, sent_at |-> SentAt,
                           status |-> status, docs |-> docs, slept |-> slept])

\* 200 with documents: _get returns, the documents are added, next page
NytPageDocs ==
    /\ \E docs \in {<<DocOne>>, <<DocOne, DocTwo>>} : \E took \in Took :
           /\ NytRequest(200, docs, took, 0)
           /\ all_docs' = all_docs \o docs
    /\ page' = page + 1
    /\ attempt' = 0
    /\ UNCHANGED <<cvars, notn>>

\* variant: an empty page does not end the loop
NytPageEmpty_Continues ==
    /\ \E took \in Took : NytRequest(200, << >>, took, 0)
    /\ page' = page + 1
    /\ attempt' = 0
    /\ UNCHANGED <<all_docs, cvars, notn>>

\* 200 without documents: `if not docs: break`, and all_docs is returned
NytPageEmpty ==
    /\ \E took \in Took : NytRequest(200, << >>, took, 0)
    /\ ret' = Returned(all_docs)
    /\ UNCHANGED <<fn, args, page, attempt, all_docs, notn>>

\* variant: the sleep after a 429 is 8 s on every attempt
NytRateLimited_ConstantWait ==
    /\ \E took \in Took : NytRequest(429, << >>, took, 16)
    /\ attempt' = attempt + 1
    /\ UNCHANGED <<page, all_docs, cvars, notn>>

\* 429: sleep 2 ** (attempt + 3) seconds and try again
NytRateLimited ==
    /\ \E took \in Took : NytRequest(429, << >>, took, 2 ^ (attempt + 4))
    /\ attempt' = attempt + 1
    /\ UNCHANGED <<page, all_docs, cvars, notn>>

\* variant: after the last 429 the documents collected so far are returned
NytRetriesExhausted_ReturnsCollected ==
    /\ fn = "search_articles"
    /\ ret = Pending
    /\ page < args.pages
    /\ attempt = max_retries
    /\ ret' = Returned(all_docs)
    /\ UNCHANGED <<fn, args, nvars, notn>>

\* the loop of _get is exhausted: RuntimeError, which search_articles does
\* not catch
NytRetriesExhausted ==
    /\ fn = "search_articles"
    /\ ret = Pending
    /\ page < args.pages
    /\ attempt = max_retries
    /\ ret' = Raised("RuntimeError")
    /\ UNCHANGED <<fn, args, nvars, notn>>

\* another error status: raise_for_status raises HTTPError; status 0 stands
\* for requests.get raising (no response within the timeout)
NytRequestFails ==
    /\ \E status \in {0, 404, 500} : \E took \in Took :
           /\ NytRequest(status, << >>, took, 0)
           /\ ret' = Raised(IF status = 0 THEN "RequestException" ELSE "HTTPError")
    /\ UNCHANGED <<fn, args, page, attempt, all_docs, notn>>

\* every page was fetched: return all_docs
NytReturn ==
    /\ fn = "search_articles"
    /\ ret = Pending
    /\ page = args.pages
    /\ ret' = Returned(all_docs)
    /\ UNCHANGED <<fn, args, nvars, notn>>

\* a call at time 50 s, on a new client or 2 s after its last request
InitNyt ==
    /\ fn = "search_articles"
    /\ args \in [pages : 0..MaxPages]
    /\ ret = Pending
    /\ page = 0
    /\ attempt = 0
    /\ all_docs = << >>
    /\ now = 100
    /\ last_request_time \in {0, 96}
    /\ requests = << >>
    /\ SpotifyIdle
    /\ libc_pads_year = FALSE
    /\ MatchIdle
    /\ BuildIdle

SpecNyt ==
    InitNyt /\ [][NytPageDocs \/ NytPageEmpty \/ NytRateLimited \/ NytRetriesExhausted
                      \/ NytRequestFails \/ NytReturn]_vars

\* the call keeps running: a request ends with a response or, after the
\* timeout, with an exception, and a sleep ends
SpecNytFair ==
    SpecNyt /\ WF_vars(NytPageDocs \/ NytPageEmpty \/ NytRateLimited \/ NytRetriesExhausted
                           \/ NytRequestFails \/ NytReturn)

\* a further search_articles call may be made on the client while it has
\* sent at most this many requests
MaxEarlierRequests == 1

\* the caller makes the next search_articles call on the same client, for one
\* page, at once or 2 s or 10 s after the last call ended
NytNextCall ==
    /\ fn = "search_articles"
    /\ ret # Pending
    /\ Len(requests) <= MaxEarlierRequests
    /\ args' = [pages |-> 1]
    /\ \E idle \in {0, 4, 20} : now' = now + idle
    /\ ret' = Pending
    /\ page' = 0
    /\ attempt' = 0
    /\ all_docs' = << >>
    /\ UNCHANGED <<fn, last_request_time, requests, notn>>

\* one client over successive search_articles calls
SpecNytClient ==
    InitNyt /\ [][NytPageDocs \/ NytPageEmpty \/ NytRateLimited \/ NytRetriesExhausted
                      \/ NytRequestFails \/ NytReturn \/ NytNextCall]_vars

\* ------------------------------------------------------------------------
\* SpotifyClient._ensure_token
\* ------------------------------------------------------------------------
MaxCalls == 3

\* seconds between the time.time() of one call and that of the next
Elapsed == {0, 25, 30}

\* `if self._access_token and now < self._token_expires_at - 30`, at time t
TokenReusable(t) ==
    /\ access_token # NoneValue
    /\ access_token # << >>
    /\ t < token_expires_at - 30

\* a call of _ensure_token whose `now` is t
EnsureTokenAt(t) ==
    /\ fn = "_ensure_token"
    /\ args.call < MaxCalls
    /\ args' = [call |-> args.call + 1]
    /\ now' = t
    /\ UNCHANGED <<fn, nots>>

\* requests.post(SPOTIFY_TOKEN_URL, ...) of the call at time t
TokenRequest(t, status, js) ==
    requests' = Append(requests, [started_at |-> t, status |-> status, js |-> js])

\* the cached token is returned
EnsureTokenCached ==
    \E d \in Elapsed :
        /\ EnsureTokenAt(now + d)
        /\ TokenReusable(now + d)
        /\ ret' = Returned(access_token)
        /\ UNCHANGED <<requests, svars>>

\* the token request is answered with a token, with or without expires_in
EnsureTokenGranted ==
    \E d \in Elapsed, token \in {<<"t", "1">>, <<"t", "2">>} :
      \E js \in {[access_token |-> token, expires_in |-> 20],
                 [access_token |-> token, expires_in |-> 60],
                 [access_token |-> token]} :
        /\ EnsureTokenAt(now + d)
        /\ ~TokenReusable(now + d)
        /\ TokenRequest(now + d, 200, js)
        /\ access_token' = js.access_token
        /\ token_expires_at' =
               now + d + (IF "expires_in" \in DOMAIN js THEN js.expires_in ELSE 3600)
        /\ ret' = Returned(js.access_token)

\* the token request is answered with an error status: `if not resp.ok`
EnsureTokenRefused ==
    \E d \in Elapsed, status \in {401, 503} :
        /\ EnsureTokenAt(now + d)
        /\ ~TokenReusable(now + d)
        /\ TokenRequest(now + d, status, << >>)
        /\ ret' = Raised("SpotifyAuthError")
        /\ UNCHANGED svars

\* requests.post raises: no connection, or no response within the timeout;
\* status 0 stands for no response
EnsureTokenPostRaises ==
    \E d \in Elapsed, error \in {"ConnectionError", "Timeout"} :
        /\ EnsureTokenAt(now + d)
        /\ ~TokenReusable(now + d)
        /\ TokenRequest(now + d, 0, << >>)
        /\ ret' = Raised(error)
        /\ UNCHANGED svars

\* a new client at time 1000, before its first call
InitToken ==
    /\ fn = "_ensure_token"
    /\ args = [call |-> 0]
    /\ ret = [kind |-> "idle"]
    /\ SpotifyIdle
    /\ now = 1000
    /\ requests = << >>
    /\ page = 0
    /\ attempt = 0
    /\ all_docs = << >>
    /\ last_request_time = 0
    /\ libc_pads_year = FALSE
    /\ MatchIdle
    /\ BuildIdle

SpecToken ==
    InitToken /\ [][EnsureTokenCached \/ EnsureTokenGranted \/ EnsureTokenRefused
                        \/ EnsureTokenPostRaises]_vars

\* ------------------------------------------------------------------------
\* match_articles_to_albums, then count_mentions_per_album on its result
\* ------------------------------------------------------------------------
\* pd.DataFrame() when nothing matched, else pd.DataFrame(matches)
MatchedFrame ==
    IF matches = << >>
    THEN [columns |-> {}, rows |-> << >>]
    ELSE [columns |-> {"album_id", "album_name", "album_base_title", "headline",
                       "snippet", "web_url", "match_in"},
          rows |-> matches]

\* the caller hands the returned frame to count_mentions_per_album
CountMatched ==
    /\ mpc = "done"
    /\ fn = "idle"
    /\ fn' = "count_mentions_per_album"
    /\ \E unique_by_url \in BOOLEAN :
           args' = [df_album_articles |-> MatchedFrame, unique_by_url |-> unique_by_url]
    /\ ret' = Pending
    /\ UNCHANGED notc

\* catalogs with and without a base title, articles with and without a URL
InitSummary ==
    /\ albums \in SeqsUpTo({Album(Title.RedTV, Title.Red), Album(Title.Lover, Title.Lover),
                            Album(Title.Midnights, NoneValue),
                            Album(Title.Punct, Title.Punct)}, MaxAlbums)
    /\ articles \in SeqsUpTo({Article(Txt.RedTurns10, Txt.LoverSong, Url1),
                              Article(Txt.RedCarpet, Txt.MidnightsLP, Url2),
                              Article(Txt.LoverSong, Txt.NewTrack, NoneValue)},
                             MaxArticles)
    /\ MatchStart
    /\ BuildIdle
    /\ CallIdle
    /\ NytIdle
    /\ SpotifyIdle
    /\ libc_pads_year = FALSE

SpecSummary ==
    InitSummary /\ [][NextMatch \/ CountMatched \/ CountReturnsEmpty \/ CountReturns]_vars

\* ------------------------------------------------------------------------
\* SpotifyClient.get_artist_albums_df: the canonical filter and base_title
\* ------------------------------------------------------------------------
TS_CANONICAL_ALBUMS ==
    {Title.TaylorSwift, Title.Fearless, Title.FearlessTV, Title.SpeakNow,
     Title.SpeakNowTV, Title.Red, Title.RedTV, Title.Y1989, Title.Y1989TV,
     Title.reputation, Title.Lover, Title.folklore, Title.folkloreDeluxe,
     Title.evermore, Title.evermoreDeluxe, Title.Midnights, Title.TTPD,
     Title.TTPDTitleCase, Title.Showgirl}

\* the literal parts of the two patterns of base_title
Qualifier ==
    [TaylorsVersion |->
       <<"(","T","a","y","l","o","r","'","s"," ","V","e","r","s","i","o","n",")">>,
     DeluxeVersion |->
       <<"(","d","e","l","u","x","e"," ","v","e","r","s","i","o","n",")">>]

RECURSIVE StripQualifier(_, _)
\* str.replace(r"\s*\(...\)", "", regex=True, case=False): every occurrence
\* of the qualifier q goes, with the white space before it
StripQualifier(text, q) ==
    LET hits == {i \in 1..(Len(text) - Len(q) + 1) :
                     Lower(SubSeq(text, i, i + Len(q) - 1)) = Lower(q)}
    IN  IF hits = {} THEN text
        ELSE LET at == CHOOSE i \in hits : \A j \in hits : i <= j
                 from == CHOOSE b \in 1..at :
                             /\ \A i \in b..(at - 1) : IsSpace(text[i])
                             /\ b > 1 => ~IsSpace(text[b - 1])
             IN  SubSeq(text, 1, from - 1)
                     \o StripQualifier(SubSeq(text, at + Len(q), Len(text)), q)

\* df["base_title"] of one album name
BaseTitleOf(name) ==
    Strip(StripQualifier(StripQualifier(AsStr(name), Qualifier.TaylorsVersion),
                         Qualifier.DeluxeVersion))

\* no album name passes the filter: an empty frame
CatalogReturnsEmpty ==
    /\ fn = "get_artist_albums_df"
    /\ ret = Pending
    /\ \A i \in 1..Len(args.albums) : args.albums[i] \notin TS_CANONICAL_ALBUMS
    /\ ret' = Returned(<< >>)
    /\ UNCHANGED <<fn, args, notc>>

\* the rows of the canonical albums, each with its base_title
CatalogReturns ==
    /\ fn = "get_artist_albums_df"
    /\ ret = Pending
    /\ \E i \in 1..Len(args.albums) : args.albums[i] \in TS_CANONICAL_ALBUMS
    /\ ret' = Returned(
           LET kept == SelectSeq(args.albums, LAMBDA n : n \in TS_CANONICAL_ALBUMS)
           IN  [i \in 1..Len(kept) |->
                   [name |-> kept[i], base_title |-> BaseTitleOf(kept[i])]])
    /\ UNCHANGED <<fn, args, notc>>

\* the album names Spotify lists for the artist: the canonical names and one
\* other release
InitCatalog ==
    /\ fn = "get_artist_albums_df"
    /\ args \in [albums : SeqsUpTo(TS_CANONICAL_ALBUMS \cup {Title.Unlisted}, MaxAlbums)]
    /\ ret = Pending
    /\ libc_pads_year = FALSE
    /\ MatchIdle
    /\ BuildIdle
    /\ NytIdle
    /\ SpotifyIdle

SpecCatalog == InitCatalog /\ [][CatalogReturnsEmpty \/ CatalogReturns]_vars

\* ------------------------------------------------------------------------
\* album_mention_summary
\* ------------------------------------------------------------------------
\* a collaborator call fails: get_artist_albums_df, search_taylor_swift, or
\* docs_to_df on a document whose headline is null
SummaryCallFails ==
    args.spotify_fails \/ args.nyt_fails \/ DocsToDfRaises(args.docs)

\* df_matches, as rows
SummaryMatches ==
    StrictRows(StrictTitles(args.df_albums, TRUE), docs_to_df(args.docs),
               Len(args.docs))

\* the exception of the failing collaborator call leaves the function
SummaryCallRaises ==
    /\ fn = "album_mention_summary"
    /\ ret = Pending
    /\ SummaryCallFails
    /\ ret' = Raised(IF args.spotify_fails THEN "HTTPError"
                     ELSE IF args.nyt_fails THEN "RuntimeError"
                     ELSE "AttributeError")
    /\ UNCHANGED <<fn, args, notc>>

\* df_albums is pd.DataFrame(), which has no column "base_title"; or no row
\* was matched and df_matches is pd.DataFrame([]), which has no column
\* "album_base_title"
SummaryRaisesKeyError ==
    /\ fn = "album_mention_summary"
    /\ ret = Pending
    /\ ~SummaryCallFails
    /\ IF args.df_albums = << >> THEN TRUE ELSE SummaryMatches = << >>
    /\ ret' = Raised("KeyError")
    /\ UNCHANGED <<fn, args, notc>>

\* both frames are returned; the summary is grouped, counted by distinct URL
\* and sorted like that of count_mentions_per_album, its count column being
\* nyt_article_count
SummaryReturns ==
    /\ fn = "album_mention_summary"
    /\ ret = Pending
    /\ ~SummaryCallFails
    /\ args.df_albums # << >>
    /\ SummaryMatches # << >>
    /\ \E sorted \in SortValuesOutcomes(
                         Grouped([columns |-> {"album_base_title", "headline",
                                               "snippet", "web_url"},
                                  rows |-> SummaryMatches], TRUE)) :
           ret' = Returned(
               [df_matches |-> SummaryMatches,
                mentions_per_album |->
                    [g \in 1..Len(sorted) |->
                        [album_base_title |-> sorted[g].album_base_title,
                         nyt_article_count |-> sorted[g].mention_count]]])
    /\ UNCHANGED <<fn, args, notc>>

\* what the two clients give: the catalog frame (no rows: pd.DataFrame()) and
\* the documents found, or a failure
InitWorkflow ==
    /\ fn = "album_mention_summary"
    /\ args \in
           [spotify_fails : BOOLEAN,
            nyt_fails : BOOLEAN,
            df_albums :
                {[i \in 1..Len(s) |-> [name |-> s[i], base_title |-> BaseTitleOf(s[i])]] :
                     s \in SeqsUpTo({Title.RedTV, Title.Lover, Title.TaylorSwift},
                                    MaxAlbums)},
            docs : DocListPool]
    /\ ret = Pending
    /\ libc_pads_year = FALSE
    /\ MatchIdle
    /\ BuildIdle
    /\ NytIdle
    /\ SpotifyIdle

SpecWorkflow ==
    InitWorkflow /\ [][SummaryCallRaises \/ SummaryRaisesKeyError \/ SummaryReturns]_vars

\* ------------------------------------------------------------------------
\* Properties of match_articles_to_albums
\* ------------------------------------------------------------------------
Prepared == mpc # "start"

Decided == DOMAIN decisions

TitleOf(i) == albums[i].title_key_norm

HeadlineOf(j) == articles[j].headline_norm

SnippetOf(j) == articles[j].snippet_norm

RecordsOf(i, j) ==
    {k \in 1..Len(matches) : matches[k].album_row = i /\ matches[k].article_row = j}

\* C1: for a generic title other than the self-titled one, the headline
\* matches iff the word-boundary pattern is found in the normalized headline
\* and the normalized headline has music context; likewise, independently,
\* for the snippet. A keyword of the other field never counts.
C1_GenericFieldRule ==
    \A p \in Decided :
        LET t == TitleOf(p[1])
            h == HeadlineOf(p[2])
            s == SnippetOf(p[2])
        IN  (t \in GENERIC_TITLES /\ t # Generic.taylor_swift) =>
                /\ decisions[p][1] = (WordSearch(h, t) /\ has_music_context(h))
                /\ decisions[p][2] = (WordSearch(s, t) /\ has_music_context(s))

\* C1 witness: a generic title hits the headline on a word boundary, the only
\* music keyword is in the snippet, and the pair is decided as no match
C1_Witness ==
    \E p \in Decided :
        /\ TitleOf(p[1]) = Generic.red
        /\ WordSearch(HeadlineOf(p[2]), Generic.red)
        /\ ~has_music_context(HeadlineOf(p[2]))
        /\ has_music_context(SnippetOf(p[2]))
        /\ decisions[p] = <<FALSE, FALSE>>

\* C2: for each generic title other than the self-titled one, a field whose
\* normalized text is the title alone does not match
C2_TitleAloneNoMatch ==
    \A p \in Decided :
        LET t == TitleOf(p[1])
        IN  (t \in GENERIC_TITLES /\ t # Generic.taylor_swift) =>
                /\ (HeadlineOf(p[2]) = t => ~decisions[p][1])
                /\ (SnippetOf(p[2]) = t => ~decisions[p][2])

\* C3: for a non-empty title outside the generic set, a field matches iff the
\* normalized title is a substring of the field's normalized text
C3_DistinctiveSubstring ==
    \A p \in Decided :
        LET t == TitleOf(p[1])
            h == HeadlineOf(p[2])
            s == SnippetOf(p[2])
        IN  (t \notin GENERIC_TITLES /\ t # << >>) =>
                /\ decisions[p][1] =
                     (\E k \in 1..Len(h) : \E l \in k..Len(h) : SubSeq(h, k, l) = t)
                /\ decisions[p][2] =
                     (\E k \in 1..Len(s) : \E l \in k..Len(s) : SubSeq(s, k, l) = t)

\* C3 witness: a distinctive title occurs inside a longer word of a headline
\* without music context, and the headline matches
C3_Witness ==
    \E p \in Decided :
        /\ TitleOf(p[1]) \notin GENERIC_TITLES
        /\ TitleOf(p[1]) # << >>
        /\ Contains(HeadlineOf(p[2]), TitleOf(p[1]))
        /\ ~WordSearch(HeadlineOf(p[2]), TitleOf(p[1]))
        /\ ~has_music_context(HeadlineOf(p[2]))
        /\ decisions[p][1]

\* C4: for the self-titled album a field matches only if that same field has
\* the word-boundary hit, music context and one of the phrases "debut album",
\* "self titled", "selftitled"
C4_SelfTitledNeedsPhrase ==
    \A p \in Decided :
        LET h == HeadlineOf(p[2])
            s == SnippetOf(p[2])
            Phrase(f) == \/ Contains(f, AlbumPhrase.debut_album)
                         \/ Contains(f, AlbumPhrase.self_titled)
                         \/ Contains(f, AlbumPhrase.selftitled)
            Gate(f) == /\ WordSearch(f, Generic.taylor_swift)
                       /\ has_music_context(f)
                       /\ Phrase(f)
        IN  TitleOf(p[1]) = Generic.taylor_swift =>
                /\ (decisions[p][1] => Gate(h))
                /\ (decisions[p][2] => Gate(s))

\* C4 witness: the headline has the artist name and a music keyword but no
\* phrase, the snippet has the phrase and matches, the headline does not
C4_Witness ==
    \E p \in Decided :
        /\ TitleOf(p[1]) = Generic.taylor_swift
        /\ WordSearch(HeadlineOf(p[2]), Generic.taylor_swift)
        /\ has_music_context(HeadlineOf(p[2]))
        /\ ~has_album_context(HeadlineOf(p[2]))
        /\ has_album_context(SnippetOf(p[2]))
        /\ decisions[p] = <<FALSE, TRUE>>

\* C5: a record is tagged "both" iff headline and snippet matched, "headline"
\* iff only the headline did, "snippet" iff only the snippet did; there is no
\* other tag
C5_MatchInTag ==
    \A k \in 1..Len(matches) :
        LET r == matches[k]
            d == decisions[<<r.album_row, r.article_row>>]
        IN  /\ r.match_in \in {"both", "headline", "snippet"}
            /\ (r.match_in = "both") = (d[1] /\ d[2])
            /\ (r.match_in = "headline") = (d[1] /\ ~d[2])
            /\ (r.match_in = "snippet") = (~d[1] /\ d[2])

\* C5 witness: the returned records carry all three tags
C5_Witness ==
    /\ mpc = "done"
    /\ {matches[k].match_in : k \in 1..Len(matches)} = {"both", "headline", "snippet"}

\* C6: a pair the loops have passed has exactly one record when a field
\* matches and none otherwise; on return this holds of every pair, so there
\* are at most |albums| x |articles| records
C6_OneRecordPerMatchingPair ==
    Prepared =>
        /\ \A i \in 1..Len(albums) : \A j \in 1..Len(articles) :
               LET d == Decide(TitleOf(i), HeadlineOf(j), SnippetOf(j))
                   passed == \/ mpc = "done"
                             \/ i < ai
                             \/ i = ai /\ mpc = "article" /\ j < ri
               IN  Cardinality(RecordsOf(i, j)) =
                       IF passed /\ (d[1] \/ d[2]) THEN 1 ELSE 0
        /\ \A k \in 1..Len(matches) :
               /\ matches[k].album_row \in 1..Len(albums)
               /\ matches[k].article_row \in 1..Len(articles)
        /\ Len(matches) <= Len(albums) * Len(articles)

\* C6 witness: on return, one article matched two albums and another matched
\* none
C6_Witness ==
    /\ mpc = "done"
    /\ \E j \in 1..Len(articles) :
           Cardinality({k \in 1..Len(matches) : matches[k].article_row = j}) = 2
    /\ \E j \in 1..Len(articles) :
           \A k \in 1..Len(matches) : matches[k].article_row # j

\* C7: the records are in album-major, article-minor input order
C7_AlbumMajorOrder ==
    \A k \in 1..Len(matches) : \A l \in 1..Len(matches) :
        k < l =>
            \/ matches[k].album_row < matches[l].album_row
            \/ /\ matches[k].album_row = matches[l].album_row
               /\ matches[k].article_row < matches[l].article_row

\* C7 witness: on return, records of two albums, the first album with records
\* of two articles
C7_Witness ==
    /\ mpc = "done"
    /\ Len(matches) >= 3
    /\ matches[1].album_row = 1 /\ matches[1].article_row = 1
    /\ matches[2].album_row = 1 /\ matches[2].article_row = 2
    /\ matches[3].album_row = 2

\* ------------------------------------------------------------------------
\* Properties of build_album_article_index_windowed
\* ------------------------------------------------------------------------
\* the frame album row i contributes when its documents are converted
FrameOf(i) == Tagged(docs_to_df(outcomes[i].docs), b_albums[i].base_title, i)

KeptFrame(i) == \E k \in 1..Len(all_rows) : all_rows[k] = FrameOf(i)

NoRowsOf(i) ==
    /\ \A k \in 1..Len(all_rows) : \A n \in 1..Len(all_rows[k]) :
           all_rows[k][n].album_row # i
    /\ \A n \in 1..Len(index) : index[n].album_row # i

\* C8: a failure of the search call for one album is caught and counts as no
\* results: the loop goes on to the next album, the album contributes no row,
\* the frames of earlier albums stay in all_rows, and a build that returns
\* has processed every album and returns the rows of those earlier albums
C8_SearchFailureIsolated ==
    \A i \in 1..Len(outcomes) :
        outcomes[i].kind = "search_error" =>
            /\ bi > i
            /\ NoRowsOf(i)
            /\ \A j \in 1..(i - 1) : outcomes[j].kind = "added" => KeptFrame(j)
            /\ bpc = "done" =>
                   /\ Len(outcomes) = Len(b_albums)
                   /\ \A j \in 1..(i - 1) :
                          outcomes[j].kind = "added" =>
                              \E n \in 1..Len(index) :
                                  SubSeq(index, n, n + Len(FrameOf(j)) - 1) = FrameOf(j)

\* C8 witness: the build returned; the search failed for the second of three
\* albums, and the rows of the first and of the third are in the index
C8_Witness ==
    /\ bpc = "done"
    /\ Len(outcomes) = 3
    /\ outcomes[1].kind = "added"
    /\ outcomes[2].kind = "search_error"
    /\ outcomes[3].kind = "added"
    /\ index = FrameOf(1) \o FrameOf(3)

\* C9: a failure of album_to_search_window for one album is caught: the album
\* is skipped and the loop goes on to the next album
C9_WindowFailureCaught ==
    \A i \in 1..Len(outcomes) :
        outcomes[i].kind = "window_error" => (bi > i /\ bpc # "raised")

\* C10: a failure of the search call or of docs_to_df for one album is caught
\* and counts as empty results: the loop goes on to the next album
C10_CollaboratorFailureCaught ==
    \A i \in 1..Len(outcomes) :
        outcomes[i].kind \in {"search_error", "convert_error"} =>
            (bi > i /\ bpc # "raised" /\ NoRowsOf(i))

\* the title is a key of TS_ALBUM_RELEASE_DATES
IsTableKey(title) == \E e \in TS_ALBUM_RELEASE_DATES : e[1] = title

\* the frame of album row j is a block of consecutive rows of the index
BlockInIndex(j) ==
    \E n \in 0..Len(index) :
        SubSeq(index, n + 1, n + Len(FrameOf(j))) = FrameOf(j)

\* C11: an album whose base title is not a key of the release-date table is
\* skipped: no search call is issued for it, it contributes no row, the loop
\* goes on, and the other albums of the batch keep their results: the frames
\* of the albums before it stay in all_rows, and a build that returns has
\* processed every album and returns the rows of every album whose search
\* gave documents
C11_UnknownAlbumSkipped ==
    \A i \in 1..Len(b_albums) :
        ~IsTableKey(b_albums[i].base_title) =>
            /\ \A c \in 1..Len(calls) : calls[c].album_row # i
            /\ NoRowsOf(i)
            /\ i <= Len(outcomes) =>
                   /\ outcomes[i].kind = "unknown"
                   /\ bi > i
                   /\ \A j \in 1..(i - 1) : outcomes[j].kind = "added" => KeptFrame(j)
            /\ bpc = "done" =>
                   /\ Len(outcomes) = Len(b_albums)
                   /\ \A j \in 1..Len(b_albums) :
                          outcomes[j].kind = "added" => BlockInIndex(j)

\* C11 witness: the build returned; the second of three albums is not in the
\* table, no call was issued for it, and the index is the rows of the first
\* album followed by the rows of the third
C11_Witness ==
    /\ bpc = "done"
    /\ Len(b_albums) = 3
    /\ b_albums[2].base_title = Title.Unlisted
    /\ outcomes[1].kind = "added"
    /\ outcomes[3].kind = "added"
    /\ [c \in 1..Len(calls) |-> calls[c].album_row] = <<1, 3>>
    /\ index = FrameOf(1) \o FrameOf(3)

RECURSIVE DatedRows(_)
\* the album rows among the first n whose base title is a key of the table,
\* in input order
DatedRows(n) ==
    IF n = 0 THEN << >>
    ELSE DatedRows(n - 1)
         \o (IF IsTableKey(b_albums[n].base_title) THEN <<n>> ELSE << >>)

\* the search call the builder is to issue for album row i
ExpectedCall(i) ==
    LET title == b_albums[i].base_title
        w == album_to_search_window(ReleaseDateOf(title), years_after)
    IN  [album_name |-> title,
         pages |-> pages_per_album,
         begin_date |-> w.begin_date,
         end_date |-> w.end_date,
         album_row |-> i]

\* the rows the builder has dealt with: those before the loop position, and
\* all of them once the call is over
RowsDealtWith == IF bpc = "loop" THEN bi - 1 ELSE Len(b_albums)

\* C12: the search calls issued are, in input order, one call per album row
\* with a known release date, each with that album's base title, the caller's
\* pages_per_album and the window of album_to_search_window(release date,
\* years_after); so the number of calls is the number of such rows
C12_OneCallPerDatedAlbum ==
    bpc # "idle" =>
        LET dated == DatedRows(RowsDealtWith)
        IN  /\ Len(calls) = Len(dated)
            /\ \A k \in 1..Len(calls) :
                   k <= Len(dated) => calls[k] = ExpectedCall(dated[k])

\* the rows of the index that come from album row i, in index order
IndexRowsOf(i) == SelectSeq(index, LAMBDA r : r.album_row = i)

\* C13: in the index a build returns, every row carries the base title of
\* the album whose search returned it; the rows of one album are the
\* documents of its search, in the order the search returned them; and the
\* blocks follow the order in which the albums were supplied
C13_IndexTaggedInOrder ==
    bpc = "done" =>
        /\ \A n \in 1..Len(index) :
               LET i == index[n].album_row
               IN  /\ i \in 1..Len(b_albums)
                   /\ outcomes[i].kind = "added"
                   /\ index[n].album_base_title = b_albums[i].base_title
        /\ \A n \in 1..Len(index) : \A m \in 1..Len(index) :
               n < m => index[n].album_row <= index[m].album_row
        /\ \A i \in 1..Len(outcomes) :
               outcomes[i].kind = "added" =>
                   LET docs == outcomes[i].docs
                       rows == IndexRowsOf(i)
                   IN  /\ Len(rows) = Len(docs)
                       /\ \A k \in 1..Len(docs) :
                              /\ rows[k].headline = HeadlineMain(docs[k])
                              /\ rows[k].snippet = docs[k].snippet
                              /\ rows[k].web_url = docs[k].web_url

\* C13 witness: the build returned an index of two blocks; the first album's
\* search returned two documents, the second album has another title
C13_Witness ==
    /\ bpc = "done"
    /\ Len(outcomes) >= 2
    /\ outcomes[1].kind = "added"
    /\ outcomes[1].docs = <<DocTwo, DocOne>>
    /\ outcomes[2].kind = "added"
    /\ b_albums[1].base_title # b_albums[2].base_title
    /\ Len(index) >= 3
    /\ index[1].web_url = Url2
    /\ index[2].web_url = Url1
    /\ index[3].album_base_title = b_albums[2].base_title

\* ------------------------------------------------------------------------
\* Properties of album_to_search_window
\* ------------------------------------------------------------------------
\* a date in the form YYYYMMDD
YYYYMMDD(y, m, d) == Digits(y, 4) \o Digits(m, 2) \o Digits(d, 2)

\* C14: for a release date that parses as YYYY-MM-DD and any years_after >= 0
\* the call returns January 1 of the release year and January 1 of (release
\* year + years_after), both as YYYYMMDD; for a release date that does not
\* parse it raises
C14_WindowOfReleaseYear ==
    (fn = "album_to_search_window" /\ ret # Pending) =>
        LET dt == strptime(args.release_date)
        IN  IF dt.ok
            THEN /\ ret.kind = "returned"
                 /\ ret.value = <<YYYYMMDD(dt.year, 1, 1),
                                  YYYYMMDD(dt.year + args.years_after, 1, 1)>>
            ELSE ret.kind = "raised"

\* ------------------------------------------------------------------------
\* Properties of _normalize
\* ------------------------------------------------------------------------
\* C15: the call returns for every text and for None; None and "" give "";
\* the result has only lower-case letters, digits and spaces, no space at
\* either end and no two spaces in a row; and _normalize of a result is that
\* result
C15_NormalizeIdempotent ==
    (fn = "_normalize" /\ ret # Pending) =>
        /\ ret.kind = "returned"
        /\ ret.value # NoneValue
        /\ args.text \in {NoneValue, << >>} => ret.value = << >>
        /\ \A i \in 1..Len(ret.value) :
               ret.value[i] \in Range(LowerLetters) \cup Range(DigitChars) \cup {" "}
        /\ ret.value # << >> =>
               ret.value[1] # " " /\ ret.value[Len(ret.value)] # " "
        /\ \A i \in 1..(Len(ret.value) - 1) :
               ~(ret.value[i] = " " /\ ret.value[i + 1] = " ")
        /\ args.round = 2 => ret.value = args.first

\* C15 witness: a text with an upper-case letter, punctuation at the start
\* and white space in a row was normalized to a shorter text with a space
\* inside, and the second call has returned
C15_Witness ==
    /\ fn = "_normalize"
    /\ ret.kind = "returned"
    /\ args.round = 2
    /\ args.original = <<"-", "A", "\t", "1">>
    /\ args.first = <<"a", " ", "1">>
    /\ ret.value = <<"a", " ", "1">>

\* ------------------------------------------------------------------------
\* Properties of count_mentions_per_album
\* ------------------------------------------------------------------------
\* the call returned the summary of a frame that has rows
Counted ==
    /\ fn = "count_mentions_per_album"
    /\ ret.kind = "returned"
    /\ args.df_album_articles # NoFrame
    /\ args.df_album_articles.rows # << >>

\* the rows of df_album_articles whose base title is t
RowsOfTitle(t) ==
    {i \in 1..Len(args.df_album_articles.rows) :
        args.df_album_articles.rows[i].album_base_title = t}

\* C16: the summary has one row per album base title of the match rows; with
\* unique_by_url (the frame having its web_url column) the count is the
\* number of distinct URLs among the album's rows, so rows sharing a URL
\* count once; without unique_by_url it is the number of the album's rows
C16_CountsDistinctUrls ==
    Counted =>
        LET df == args.df_album_articles
            titles == {df.rows[i].album_base_title : i \in 1..Len(df.rows)}
                          \ {NoneValue}
        IN  /\ Len(ret.value) = Cardinality(titles)
            /\ {ret.value[k].album_base_title : k \in 1..Len(ret.value)} = titles
            /\ \A k \in 1..Len(ret.value) :
                   LET mine == RowsOfTitle(ret.value[k].album_base_title)
                   IN  /\ (args.unique_by_url /\ "web_url" \in df.columns) =>
                              ret.value[k].mention_count =
                                  Cardinality({df.rows[i].web_url : i \in mine}
                                                  \ {NoneValue})
                       /\ ~args.unique_by_url =>
                              ret.value[k].mention_count = Cardinality(mine)

\* C16 witness: with unique_by_url, two rows of one album that share a URL
\* gave the count 1, and another album has its own row
C16_Witness ==
    /\ Counted
    /\ args.unique_by_url
    /\ args.df_album_articles.rows =
           <<MatchRow(Title.Red, Url1), MatchRow(Title.Lover, Url1),
             MatchRow(Title.Red, Url1)>>
    /\ \E k \in 1..Len(ret.value) :
           /\ ret.value[k].album_base_title = Title.Red
           /\ ret.value[k].mention_count = 1

StrictDone == fn = "match_articles_to_albums_strict" /\ ret.kind = "returned"

\* the base title is "taylor swift" when case is ignored
IsSelfTitled(t) ==
    /\ Len(t) = Len(Generic.taylor_swift)
    /\ \A i \in 1..Len(t) :
           t[i] = Generic.taylor_swift[i]
               \/ (t[i] \in UpperSet /\ LowerOfUpper[t[i]] = Generic.taylor_swift[i])

\* C18: with skip_ambiguous no returned row carries a base title that is
\* "taylor swift" ignoring case; without it such a title has a row for
\* exactly the articles in whose lower-cased text it is found on word
\* boundaries, like every other title
C18_SelfTitledSkipped ==
    StrictDone =>
        /\ args.skip_ambiguous =>
               \A k \in 1..Len(ret.value) : ~IsSelfTitled(ret.value[k].album_base_title)
        /\ \A i \in 1..Len(args.df_albums) : \A j \in 1..Len(args.df_articles) :
               LET t == args.df_albums[i].base_title
                   found == WordSearch(StrictText(args.df_articles[j]), Lower(t))
                   rows == {k \in 1..Len(ret.value) :
                               /\ ret.value[k].album_base_title = t
                               /\ ret.value[k].article_row = j}
               IN  (t # NoneValue /\ ~(args.skip_ambiguous /\ IsSelfTitled(t))) =>
                       Cardinality(rows) = IF found THEN 1 ELSE 0

\* C18 witness: the albums are the self-titled one in two spellings, an
\* article names the artist, and with skip_ambiguous the call returned no row
C18_Witness ==
    /\ StrictDone
    /\ args.skip_ambiguous
    /\ args.df_albums = <<[base_title |-> Title.TaylorSwift],
                          [base_title |-> Generic.taylor_swift]>>
    /\ \E j \in 1..Len(args.df_articles) :
           WordSearch(StrictText(args.df_articles[j]), Generic.taylor_swift)
    /\ ret.value = << >>

\* ------------------------------------------------------------------------
\* Properties of the helpers of spotify_helpers.py
\* ------------------------------------------------------------------------
\* the columns each helper reads
ColumnsRead ==
    [get_tracks_by_year |-> {"album_release_date"},
     longest_songs |-> {"duration_ms"},
     popularity_over_time |-> {"album_release_date", "album_popularity"},
     compare_rerecordings |->
         {"album_base_title", "album_is_rerecording", "album_popularity"}]

\* C19: when a column the helper reads is absent from df_tracks, the call
\* raises the ValueError that names an absent column it reads; it raises no
\* other kind of error and does not return
C19_MissingColumnValueError ==
    (fn \in DOMAIN ColumnsRead /\ ret # Pending) =>
        LET absent == ColumnsRead[fn] \ args.df_tracks.columns
        IN  absent # {} =>
                /\ ret.kind = "raised"
                /\ ret.error.type = "ValueError"
                /\ ret.error.column \in absent

\* ------------------------------------------------------------------------
\* Properties of NYTClient.search_articles
\* ------------------------------------------------------------------------
\* the request failed: an error status or no response, or the 429 of the
\* last attempt
FailedRequest(r) ==
    \/ r.status \notin {200, 429}
    \/ r.status = 429 /\ r.attempt = max_retries - 1

RECURSIVE DocsFetched(_)
\* the documents of the first k requests, in request order
DocsFetched(k) ==
    IF k = 0 THEN << >> ELSE DocsFetched(k - 1) \o requests[k].docs

\* C20: when a request of the call failed, the call raised and so returned
\* no document; a call that returned had no failed request and returned all
\* the documents fetched, in order
C20_NoPartialData ==
    (fn = "search_articles" /\ ret # Pending) =>
        /\ (\E k \in 1..Len(requests) : FailedRequest(requests[k])) =>
               ret.kind = "raised"
        /\ ret.kind = "raised" => "value" \notin DOMAIN ret
        /\ ret.kind = "returned" => ret.value = DocsFetched(Len(requests))

\* C20 witness: the first page gave documents, the second page got 429 on all
\* three attempts, and the call raised RuntimeError
C20_Witness ==
    /\ fn = "search_articles"
    /\ ret = Raised("RuntimeError")
    /\ all_docs # << >>
    /\ Len(requests) = 4
    /\ requests[1].status = 200
    /\ \A k \in 2..4 : requests[k].status = 429 /\ requests[k].page = 1

\* ------------------------------------------------------------------------
\* Further properties of match_articles_to_albums
\* ------------------------------------------------------------------------
\* C21: no match record belongs to an album whose title key (the base title,
\* where the row has one) normalizes to the empty string
C21_EmptyBaseTitleSkipped ==
    Prepared =>
        \A k \in 1..Len(matches) : TitleOf(matches[k].album_row) # << >>

\* C21 witness: the call is over for an album whose base title normalizes to
\* "" while its name is found in the headline of the article it was paired
\* with
C21_Witness ==
    /\ mpc = "done"
    /\ Len(albums) = 1
    /\ Get(albums[1], "base_title") # NoneValue
    /\ TitleOf(1) = << >>
    /\ albums[1].name_norm # << >>
    /\ <<1, 1>> \in Decided
    /\ Contains(HeadlineOf(1), albums[1].name_norm)
    /\ matches = << >>

\* ------------------------------------------------------------------------
\* Further properties of NYTClient
\* ------------------------------------------------------------------------
\* C22: any two consecutive requests of one client are sent at least
\* _min_request_interval apart
C22_MinRequestInterval ==
    \A k \in 2..Len(requests) :
        requests[k].sent_at - requests[k - 1].sent_at >= min_request_interval

\* C22 witness: a later search call whose first request waited until exactly
\* the interval after the last request of the call before it, itself followed
\* by a retry
C22_Witness ==
    \E k \in 2..Len(requests) :
        /\ requests[k].page = 0
        /\ requests[k].attempt = 0
        /\ requests[k].sent_at = requests[k - 1].sent_at + min_request_interval
        /\ k < Len(requests)
        /\ requests[k + 1].attempt = 1

\* the requests of one search_articles call, page by page: what _get does
\* with each response
GetDiscipline ==
    \A k \in 1..Len(requests) :
        LET r == requests[k]
            last == k = Len(requests)
        IN  /\ r.attempt < max_retries
            /\ r.attempt > 0 =>
                   /\ requests[k - 1].status = 429
                   /\ requests[k - 1].page = r.page
                   /\ requests[k - 1].attempt = r.attempt - 1
            /\ r.status = 200 /\ ~last =>
                   /\ requests[k + 1].page = r.page + 1
                   /\ requests[k + 1].attempt = 0
            /\ r.status \notin {200, 429} =>
                   /\ last
                   /\ ret = Raised(IF r.status = 0 THEN "RequestException"
                                   ELSE "HTTPError")
            /\ r.slept = (IF r.status # 429 THEN 0
                          ELSE IF r.attempt = 0 THEN 2 * 8
                          ELSE IF r.attempt = 1 THEN 2 * 16
                          ELSE 2 * 32)
            /\ r.status = 429 /\ ~last =>
                   /\ requests[k + 1].page = r.page
                   /\ requests[k + 1].attempt = r.attempt + 1
                   /\ requests[k + 1].sent_at >= r.sent_at + r.slept
            /\ r.status = 429 /\ r.attempt = max_retries - 1 =>
                   /\ last
                   /\ ret \in {Pending, Raised("RuntimeError")}

\* C23: _get sends at most max_retries requests for a page, returns on the
\* first 200, raises at once on another error status, sleeps 8, 16, 32 s
\* after the 429 of attempt 0, 1, 2 and raises RuntimeError after the third;
\* the call comes to an end
C23_GetTerminates ==
    /\ []GetDiscipline
    /\ <>(fn = "search_articles" /\ ret # Pending)

\* C23 witness: three 429 responses for page 0, slept after for 8, 16 and
\* 32 s, then RuntimeError
C23_Witness ==
    /\ ret = Raised("RuntimeError")
    /\ Len(requests) = max_retries
    /\ \A k \in 1..max_retries :
           /\ requests[k].status = 429
           /\ requests[k].page = 0
           /\ requests[k].attempt = k - 1
    /\ requests[1].slept = 16
    /\ requests[2].slept = 32
    /\ requests[3].slept = 64

\* the number of pages that delivered documents among the first k requests
RECURSIVE PagesWithDocs(_)
PagesWithDocs(k) ==
    IF k = 0 THEN 0
    ELSE PagesWithDocs(k - 1) + (IF requests[k].docs # << >> THEN 1 ELSE 0)

\* C24: pages are requested from 0 upwards, a page again only as a retry and
\* the next page only after documents came; nothing is requested after an
\* empty page or beyond `pages` pages; what is returned is the documents of
\* the pages in page order, after an empty page or after `pages` pages
C24_PagesInOrder ==
    fn = "search_articles" =>
        /\ \A k \in 1..Len(requests) :
               LET r == requests[k]
               IN  /\ r.page < args.pages
                   /\ r.page = PagesWithDocs(k - 1)
                   /\ r.status = 200 /\ r.docs = << >> =>
                          /\ k = Len(requests)
                          /\ ret = Returned(DocsFetched(k))
        /\ ret.kind = "returned" =>
               /\ ret.value = DocsFetched(Len(requests))
               /\ \/ PagesWithDocs(Len(requests)) = args.pages
                  \/ /\ requests # << >>
                     /\ requests[Len(requests)].status = 200
                     /\ requests[Len(requests)].docs = << >>

\* C24 witness: of two pages asked for, page 0 came with two documents after a
\* retry and page 1 came empty; the two documents are returned
C24_Witness ==
    /\ fn = "search_articles"
    /\ args.pages = 2
    /\ Len(requests) = 3
    /\ requests[1].status = 429
    /\ requests[2].docs = <<DocOne, DocTwo>>
    /\ requests[3].page = 1
    /\ requests[3].status = 200
    /\ requests[3].docs = << >>
    /\ ret = Returned(<<DocOne, DocTwo>>)

\* ------------------------------------------------------------------------
\* Properties of SpotifyClient._ensure_token
\* ------------------------------------------------------------------------
\* the call made in this step sent a token request
TokenRequested == Len(requests') = Len(requests) + 1

\* the token request made in this step failed
TokenRequestFailed == TokenRequested /\ requests'[Len(requests')].status # 200

\* the successful token requests so far
Granted == {k \in 1..Len(requests) : requests[k].status = 200}

\* C25: a call returns the cached token without a request exactly when one is
\* cached and the time is more than 30 s before the recorded expiry; a
\* failed token request raises SpotifyAuthError and leaves token and expiry
\* as they were; the expiry is never later than the start of the last
\* successful request plus its expires_in
C25_TokenRefresh ==
    /\ [][/\ ~TokenRequested =>
                /\ TokenReusable(now')
                /\ ret' = Returned(access_token)
                /\ UNCHANGED svars
          /\ TokenReusable(now') => ~TokenRequested
          /\ TokenRequestFailed =>
                /\ ret' = Raised("SpotifyAuthError")
                /\ UNCHANGED svars]_vars
    /\ [](Granted # {} =>
              LET last == CHOOSE k \in Granted : \A m \in Granted : m <= k
              IN  token_expires_at <=
                      requests[last].started_at
                      + (IF "expires_in" \in DOMAIN requests[last].js
                         THEN requests[last].js.expires_in ELSE 3600))

\* ------------------------------------------------------------------------
\* Properties of match_articles_to_albums on absent article fields
\* ------------------------------------------------------------------------
\* C26: a pair never matches in a field the article does not have (None), so
\* an article without headline and snippet gets no record
C26_AbsentFieldEmpty ==
    Prepared =>
        \A pair \in Decided :
            /\ articles[pair[2]].headline = NoneValue => ~decisions[pair][1]
            /\ articles[pair[2]].snippet = NoneValue => ~decisions[pair][2]

\* ------------------------------------------------------------------------
\* Properties of count_mentions_per_album on the matcher's result
\* ------------------------------------------------------------------------
\* the match records of the album with base title t
RecordsOfTitle(t) == {k \in 1..Len(matches) : matches[k].album_base_title = t}

\* C27: every album base title with a match record has a row in the summary,
\* with a count of at least 1 and at most the number of its match records
C27_MatchedAlbumsCounted ==
    (mpc = "done" /\ fn = "count_mentions_per_album" /\ ret.kind = "returned") =>
        \A k \in 1..Len(matches) :
            \E g \in 1..Len(ret.value) :
                /\ ret.value[g].album_base_title = matches[k].album_base_title
                /\ ret.value[g].mention_count >= 1
                /\ ret.value[g].mention_count
                       <= Cardinality(RecordsOfTitle(matches[k].album_base_title))

\* ------------------------------------------------------------------------
\* Properties of SpotifyClient.get_artist_albums_df
\* ------------------------------------------------------------------------
\* C28: the base title of every row of the catalog frame is a key of
\* TS_ALBUM_RELEASE_DATES
C28_CanonicalTitlesDated ==
    (fn = "get_artist_albums_df" /\ ret.kind = "returned") =>
        \A i \in 1..Len(ret.value) : IsTableKey(ret.value[i].base_title)

\* ------------------------------------------------------------------------
\* Properties of album_mention_summary
\* ------------------------------------------------------------------------
\* C29: when no collaborator call fails, album_mention_summary returns the
\* match set and the summary, both empty when there is no album, no article
\* or no match; it raises only when a collaborator call fails
C29_SummaryCompletes ==
    (fn = "album_mention_summary" /\ ret # Pending) =>
        /\ ret.kind = "raised" => SummaryCallFails
        /\ ~SummaryCallFails =>
               /\ ret.kind = "returned"
               /\ (args.df_albums = << >> \/ args.docs = << >>) =>
                      /\ ret.value.df_matches = << >>
                      /\ ret.value.mentions_per_album = << >>

====
